---- MODULE Spec2Model ----
(***************************************************************************)
(* Extension-object lifecycle of pkg/extensions (customresources.go) and   *)
(* of the backup relay component (component/extensions/backupupload and    *)
(* backupdownload): one object key in a versioned object store, one driver *)
(* goroutine calling Deploy / Wait / Destroy / WaitCleanup / Migrate /     *)
(* WaitMigrate on it, and the external writers of the same object (the     *)
(* extension reconciler and any other client).                             *)
(***************************************************************************)
EXTENDS Integers, FiniteSets, Sequences, TLC

(* ------------------------------ bounds -------------------------------- *)

\* largest value of the injected clock (TimeNow / clock.Now)
MaxTime == 2
\* largest resourceVersion the store hands out (every write takes one)
MaxRV == 4
\* largest severeThreshold, in poll intervals
MaxSevere == 1
\* largest timeout, in poll intervals
MaxTimeout == 2
\* the number of objects in the namespace the batch functions list
MaxObjects == 2
\* the number of concurrent invocations of SaveGardenerResourceDataInShootState
MaxInvocations == 2
\* how often the snapshot is computed
MaxRuns == 2
\* reconciles of the BackupDownload object
MaxReconciles == 2

(* ------------------------------ values -------------------------------- *)

NoTs == <<"none", 0>>
\* TimeNow().UTC().String()
TsString(t) == <<"string", t>>
\* clock.Now().UTC().Format(time.RFC3339Nano)
TsRFC3339(t) == <<"rfc3339nano", t>>

NoLastError == [desc |-> "none", codes |-> {}]
LastErrors == {[desc |-> "Some error", codes |-> {}],
               [desc |-> "Some error", codes |-> {"ERR_INFRA_UNAUTHORIZED"}]}

\* an object that carries its name and namespace only
EmptyObj == [rv |-> 0, op |-> "none", ts |-> NoTs, confirm |-> FALSE,
             spec |-> "empty", state |-> "none", optype |-> "none",
             lastError |-> NoLastError, fin |-> FALSE, deleting |-> FALSE,
             purpose |-> "none", statusState |-> <<>>, resources |-> {}]

\* error values: kind says where the error comes from, coded says whether
\* it is an *ErrorWithCodes
Nil == [kind |-> "nil", desc |-> "none", coded |-> FALSE, codes |-> {}]
Pending == [kind |-> "pending", desc |-> "none", coded |-> FALSE, codes |-> {}]
Err(kind, desc) == [kind |-> kind, desc |-> desc, coded |-> FALSE, codes |-> {}]
NotFoundErr == Err("notfound", "not found")
ConflictErr == Err("conflict", "the object has been modified")
FakeErr == Err("store", "fake")
NewErrorWithCodes(kind, desc, codes) ==
    [kind |-> kind, desc |-> desc, coded |-> TRUE, codes |-> codes]
ExtractErrorCodes(err) == IF err.coded THEN err.codes ELSE {}

VARIABLES
    present,      \* the store holds the object
    store,        \* the stored object (EmptyObj while absent)
    revision,     \* last resourceVersion handed out by the store
    now,          \* the clock
    obj,          \* the in-memory object the driver passes to its calls
    pc,           \* position of the driver
    call,         \* the call in progress or last finished
    relay,        \* the call was made through the backup relay component
    result,       \* what the last call returned (Pending while running)
    w,            \* locals of the wait in progress
    obs,          \* what the last store call of the driver answered
    hist,         \* history of the driver: what its calls did to the store
    namespace,    \* the objects of one kind in the namespace of a batch call
    batch,        \* the batch call: the listed objects, their tasks, the result
    shootState,   \* the ShootState passed to the restore functions
    restore,      \* locals and history of the restore in progress
    backup        \* the backup of the ShootState on its way up and down

vars == <<present, store, revision, now, obj, pc, call, relay, result, w, obs, hist,
          namespace, batch, shootState, restore, backup>>

\* the state of the batch calls, of the restore and of the backup
batchVars == <<namespace, batch>>
restoreVars == <<shootState, restore>>
extVars == <<namespace, batch, shootState, restore, backup>>
\* the state of the store, the clock and the driver of one object
driverVars == <<present, store, revision, now, obj, pc, call, relay, result, w, obs, hist>>

NoBatch == [kind |-> "none", listOK |-> FALSE, listed |-> {}, task |-> <<>>,
            timeout |-> 0, done |-> <<>>, cluster |-> {}]
NoShootState == [extensions |-> {}, resources |-> {}]
\* no entry of the ShootState matches
NoEntry == [kind |-> "none", name |-> "none", purpose |-> "none", state |-> <<>>,
            resources |-> {}]
NoRestore == [steps |-> <<>>, failed |-> "none", entry |-> NoEntry, patched |-> FALSE,
             resourceRefs |-> {}, created |-> {}, skipped |-> {}]
NoBackup == [stage |-> "none", snapshot |-> [extensions |-> {}, resources |-> {}],
            data |-> <<>>, err |-> "nil", extensions |-> <<>>, resources |-> <<>>,
            pending |-> {}, referenced |-> <<>>, runs |-> 0]

NoWait == [expectedTimestamp |-> NoTs, checkTs |-> FALSE, severe |-> 0, timeout |-> 0,
           hook |-> "nil", retryCountUntilSevere |-> 0,
           lastObservedError |-> Nil, minorErr |-> Nil, polls |-> 0,
           codedPolls |-> 0, sawNotFound |-> FALSE,
           hookCalls |-> 0, hookFailed |-> FALSE, end |-> "none"]

NoHist == [deployedTs |-> NoTs, passedTs |-> NoTs, patchAnswer |-> Pending,
           again |-> FALSE,
           stale |-> FALSE, wrote |-> FALSE, deleteIssued |-> FALSE]

\* the objects a driver may find in the store when it is constructed: left
\* by an earlier run, not yet picked up or reconciled before
InitialObjects ==
    {[EmptyObj EXCEPT !.rv = 1, !.spec = "values"],
     [EmptyObj EXCEPT !.rv = 1, !.spec = "values", !.fin = TRUE, !.state = "Succeeded",
                      !.optype = "Reconcile"]}

Init ==
    /\ present \in BOOLEAN
    /\ store \in IF present THEN InitialObjects ELSE {EmptyObj}
    /\ revision = IF present THEN 1 ELSE 0
    /\ now = 1
    /\ obj = EmptyObj
    /\ pc = "idle"
    /\ call = "none"
    /\ relay = FALSE
    /\ result = Pending
    /\ w = NoWait
    /\ obs = "none"
    /\ hist = NoHist
    /\ namespace = <<>>
    /\ batch = NoBatch
    /\ shootState = NoShootState
    /\ restore = NoRestore
    /\ backup = NoBackup

(* --------------------------- the object store ------------------------- *)

\* mutant: every field of the modified object goes into the patch
MergeFromDiff_AllFields(o, m) == DOMAIN m \ {"rv"}

\* the fields of the modified object m that differ from the original o:
\* the body of a JSON merge patch made by client.MergeFrom(o)
MergeFromDiff(o, m) == {f \in DOMAIN m \ {"rv"} : m[f] # o[f]}

\* the stored object after a merge patch with body `fields` of m
ApplyPatch(s, m, fields) ==
    [f \in DOMAIN s |-> IF f \in fields THEN m[f] ELSE s[f]]

\* answer of the API server to Patch(obj, MergeFrom(original)): optimistic
\* says whether the patch carries the resourceVersion of the original
\* (client.MergeFromWithOptimisticLock)
PatchAnswer(o, optimistic) ==
    IF ~present THEN NotFoundErr
    ELSE IF optimistic /\ o.rv # 0 /\ o.rv # store.rv THEN ConflictErr
    ELSE Nil

\* the caller holds a revision of the object and the store is at another one
Stale(o) == present /\ o.rv # 0 /\ o.rv # store.rv

\* the object stored after the patch was accepted; a patch that changes
\* nothing leaves the resourceVersion alone
Patched(o, m) ==
    LET n == ApplyPatch(store, m, MergeFromDiff(o, m))
    IN  IF n = store THEN store ELSE [n EXCEPT !.rv = revision + 1]

\* the store takes the written object n
Write(n) ==
    /\ store' = n
    /\ revision' = IF n = store THEN revision ELSE revision + 1

(* ------------------- the other writers of the object ------------------ *)

\* the calls a driver makes one after the other. A driver lists the objects
\* and passes them on, annotates and then waits for readiness, deletes and
\* then waits for the cleanup, migrates and then waits for the migration
DriverFollows(prev) ==
    CASE prev = "none" -> {"List", "Annotate", "Migrate", "WaitReady", "Delete",
                           "WaitDeleted", "WaitMigrated", "Destroy"}
      [] prev = "List" -> {"Annotate", "Migrate", "WaitReady", "Delete",
                           "WaitDeleted", "WaitMigrated"}
      [] prev = "Annotate" -> {"WaitReady"}
      [] prev = "Migrate" -> {"WaitMigrated"}
      [] prev = "Delete" -> {"WaitDeleted"}
      [] OTHER -> {}

\* mutant: the upload begins with Deploy
RelayFollows_DeployFirst(prev, deployed) ==
    CASE prev = "none" -> {"Deploy"}
      [] prev = "Destroy" -> {"WaitCleanup"}
      [] prev = "WaitCleanup" -> IF deployed THEN {} ELSE {"Deploy"}
      [] prev = "Deploy" -> {"Wait"}
      [] prev = "Wait" -> {"Destroy"}
      [] OTHER -> {}

\* UploadShootStateBackup and DownloadShootStateBackup: destroy and wait for
\* the cleanup, deploy and wait for readiness, destroy and wait again
RelayFollows(prev, deployed) ==
    CASE prev = "Destroy" -> {"WaitCleanup"}
      [] prev = "WaitCleanup" -> IF deployed THEN {} ELSE {"Deploy"}
      [] prev = "Deploy" -> {"Wait"}
      [] prev = "Wait" -> {"Destroy"}
      [] OTHER -> {}

\* mutant: the next call is made whatever the last one returned
Follows_ErrorIgnored ==
    IF pc # "idle" THEN {}
    ELSE DriverFollows(call) \cup RelayFollows(call, hist.deployedTs # NoTs)

\* the calls that may come next: a call that returned an error ends the flow
Follows ==
    IF pc # "idle" \/ (call # "none" /\ result # Nil) THEN {}
    ELSE DriverFollows(call) \cup RelayFollows(call, hist.deployedTs # NoTs)

\* the driver has not made its last call, or is still in it
Running == pc # "idle" \/ Follows # {}

\* the clock advances
Tick ==
    /\ Running
    /\ now < MaxTime
    /\ now' = now + 1
    /\ UNCHANGED <<present, store, revision, obj, pc, call, relay, result, w, obs, hist>>
    /\ UNCHANGED extVars

ComputeOperationType(o) ==
    IF o.op = "migrate" THEN "Migrate"
    ELSE IF o.state = "none" THEN "Create" ELSE "Reconcile"

\* the extension reconciler picks the object up: finalizer, operation
\* annotation removed, status Processing
AgentProcessing ==
    /\ Running
    /\ present /\ ~store.deleting /\ revision < MaxRV
    /\ store.state # "Processing" \/ store.op # "none"
    /\ Write([store EXCEPT !.fin = TRUE, !.op = "none", !.state = "Processing",
                           !.optype = ComputeOperationType(store),
                           !.rv = revision + 1])
    /\ UNCHANGED <<present, now, obj, pc, call, relay, result, w, obs, hist>>
    /\ UNCHANGED extVars

\* the actuator failed: status Error with a last error
AgentError ==
    /\ Running
    /\ present /\ store.state = "Processing" /\ revision < MaxRV
    /\ \E e \in LastErrors :
          Write([store EXCEPT !.state = "Error", !.lastError = e, !.rv = revision + 1])
    /\ UNCHANGED <<present, now, obj, pc, call, relay, result, w, obs, hist>>
    /\ UNCHANGED extVars

\* the actuator succeeded: status Succeeded, last error cleared
AgentSuccess ==
    /\ Running
    /\ present /\ store.state = "Processing" /\ revision < MaxRV
    /\ Write([store EXCEPT !.state = "Succeeded", !.lastError = NoLastError,
                           !.rv = revision + 1])
    /\ UNCHANGED <<present, now, obj, pc, call, relay, result, w, obs, hist>>
    /\ UNCHANGED extVars

\* the reconciler finished the deletion: finalizer removed, object gone
AgentDelete ==
    /\ Running
    /\ present /\ store.deleting
    /\ present' = FALSE
    /\ store' = EmptyObj
    /\ UNCHANGED <<revision, now, obj, pc, call, relay, result, w, obs, hist>>
    /\ UNCHANGED extVars

\* another client creates the object
ExternalCreate ==
    /\ Running
    /\ ~present /\ revision < MaxRV
    /\ present' = TRUE
    /\ \E o \in InitialObjects : Write([o EXCEPT !.rv = revision + 1])
    /\ UNCHANGED <<now, obj, pc, call, relay, result, w, obs, hist>>
    /\ UNCHANGED extVars

\* another client deletes the object: an object with a finalizer is marked
\* for deletion, any other object is removed
ExternalDelete ==
    /\ Running
    /\ present /\ ~store.deleting
    /\ IF store.fin
       THEN /\ revision < MaxRV
            /\ Write([store EXCEPT !.deleting = TRUE, !.rv = revision + 1])
            /\ UNCHANGED present
       ELSE /\ present' = FALSE
            /\ store' = EmptyObj
            /\ UNCHANGED revision
    /\ UNCHANGED <<now, obj, pc, call, relay, result, w, obs, hist>>
    /\ UNCHANGED extVars

\* another client patches the object: annotations replaced by a timestamp
\* of its own, older than the clock, status Succeeded
ExternalPatch ==
    /\ Running
    /\ present /\ revision < MaxRV
    /\ store.ts # TsString(now - 1) \/ store.state # "Succeeded"
    /\ Write([store EXCEPT !.op = "none", !.confirm = FALSE, !.ts = TsString(now - 1),
                           !.state = "Succeeded", !.lastError = NoLastError,
                           !.rv = revision + 1])
    /\ UNCHANGED <<present, now, obj, pc, call, relay, result, w, obs, hist>>
    /\ UNCHANGED extVars

(* ------------------------- health predicates -------------------------- *)

\* health.ObjectHasAnnotationWithValue(gardener.cloud/timestamp, expected)
ObjectHasAnnotationWithValue(o, expected) ==
    IF o.ts = expected THEN Nil ELSE Err("health", "annotation is not set to expected value")

\* health.CheckExtensionObject: a last error makes the object unhealthy (the
\* error is an error with the codes of the last error), as does a last
\* operation that is not Succeeded
CheckExtensionObject(o) ==
    IF o.lastError # NoLastError
    THEN NewErrorWithCodes("health", o.lastError.desc, o.lastError.codes)
    ELSE IF o.state # "Succeeded" THEN Err("health", "extension state is not succeeded")
    ELSE Nil

\* health.And: the first failing check decides
HealthAnd(e1, e2) == IF e1 # Nil THEN e1 ELSE e2

\* mutant: the timestamp of the passed object is never checked
ReadyHealthFunc_NoTimestamp(checkTs, expected, o) == CheckExtensionObject(o)

\* the health function WaitUntilExtensionObjectReady builds for the passed
\* object: the timestamp check only if the passed object carries a timestamp
ReadyHealthFunc(checkTs, expected, o) ==
    IF checkTs
    THEN HealthAnd(ObjectHasAnnotationWithValue(o, expected), CheckExtensionObject(o))
    ELSE CheckExtensionObject(o)

\* retry.MinorOrSevereError
MinorOrSevereError(retryCountUntilSevere, threshold) ==
    IF retryCountUntilSevere > threshold THEN "severe" ELSE "minor"

(* ----------------------------- the driver ----------------------------- *)

\* a call of the driver begins: through the relay component the object is
\* always emptyBackupUpload() / emptyBackupDownload(); another caller passes
\* what it holds, or an object with name and namespace only
Begin(name, r, fresh, next) ==
    /\ pc = "idle"
    /\ name \in Follows
    /\ r => fresh
    /\ pc' = next
    /\ call' = name
    /\ relay' = r
    /\ result' = Pending
    /\ obs' = "none"
    /\ obj' = IF fresh THEN EmptyObj ELSE obj
    /\ hist' = [NoHist EXCEPT !.deployedTs = hist.deployedTs,
                              !.passedTs = IF fresh THEN NoTs ELSE obj.ts]
    /\ UNCHANGED extVars

Return(r) ==
    /\ pc' = "idle"
    /\ result' = r

\* applyFuncToExtensionObjects: the batch functions list the objects and
\* pass each listed object on
ListObjects ==
    /\ pc = "idle" /\ present
    /\ "List" \in Follows
    /\ obj' = store
    /\ call' = "List" /\ relay' = FALSE /\ result' = Nil /\ obs' = "found"
    /\ w' = NoWait
    /\ hist' = NoHist
    /\ UNCHANGED <<present, store, revision, now, pc>>
    /\ UNCHANGED extVars

(* --------------------------- readiness wait --------------------------- *)

\* WaitUntilExtensionObjectReady up to the first poll: the timestamp of the
\* passed object, if it has one, becomes the expected timestamp
StartWaitReady(r, fresh, severe, timeout, hook) ==
    /\ Begin(IF r THEN "Wait" ELSE "WaitReady", r, fresh, "ready")
    /\ LET o == IF fresh THEN EmptyObj ELSE obj
       IN  w' = [NoWait EXCEPT !.checkTs = (o.ts # NoTs),
                               !.expectedTimestamp = o.ts,
                               !.severe = severe, !.timeout = timeout,
                               !.hook = hook, !.end = "running"]
    /\ UNCHANGED <<present, store, revision, now>>

WaitUntilExtensionObjectReady ==
    \E fresh \in BOOLEAN, severe \in 0..MaxSevere, timeout \in 1..MaxTimeout,
       hook \in {"nil", "set"} :
        StartWaitReady(FALSE, fresh, severe, timeout, hook)

\* mutant: the loop error is returned, the last observed error dropped
ReadyError_LoopErrorOnly(lastObservedError, err) == Err(err.kind, err.desc)

\* the error WaitUntilObjectReadyWithHealthFunction returns when the retry
\* loop ended with err
ReadyError(lastObservedError, err) ==
    IF lastObservedError # Nil
    THEN NewErrorWithCodes("lastObserved", lastObservedError.desc,
                           ExtractErrorCodes(lastObservedError))
    ELSE Err(err.kind, err.desc)

\* mutant: only the polls that returned an error with codes count
RetryCount_CodedOnly(ws) == ws.codedPolls + 1

\* the poll counter after retryCountUntilSevere++ : every poll counts
RetryCount(ws) == ws.retryCountUntilSevere + 1

\* mutant: not-found ends the wait like any other store error
GetSeverity_NotFoundSevere(answer) == IF answer = Nil THEN "ok" ELSE "severe"

\* what the loop does with the answer of c.Get: not-found is retried, any
\* other error ends the wait
GetSeverity(answer) ==
    IF answer = Nil THEN "ok"
    ELSE IF answer = NotFoundErr THEN "minor" ELSE "severe"

\* mutant: an error with codes is retried like any other health error
HealthSeverity_AlwaysMinor(err, n, severe) == "minor"

\* what the loop does with an error of the health function: an error with
\* codes goes through MinorOrSevereError, any other error is retried
HealthSeverity(err, n, severe) ==
    IF err.coded THEN MinorOrSevereError(n, severe) ELSE "minor"

\* mutant: an error of the post-ready hook is retried
HookSeverity_Minor(hookErr) == IF hookErr # Nil THEN "minor" ELSE "ok"

\* what the loop does with the answer of the post-ready hook
HookSeverity(hookErr) == IF hookErr # Nil THEN "severe" ELSE "ok"

\* answer of c.Get
\* mutant: the object is not reset before the Get
ResetObj_Keep(o) == o

\* the function createResetObjectFunc returns: the object is set to a new
\* empty object of its kind
ResetObj(o) == EmptyObj

\* the decoder of the client: a field the response does not set keeps the
\* value the object passed in has
Decode(into, stored) ==
    [f \in DOMAIN stored |-> IF stored[f] = EmptyObj[f] THEN into[f] ELSE stored[f]]

\* what the object holds after resetObj() and a successful c.Get
GetObject(o) == Decode(ResetObj(o), store)

GetAnswer(storeFails) ==
    IF storeFails THEN FakeErr ELSE IF ~present THEN NotFoundErr ELSE Nil

\* one poll of WaitUntilObjectReadyWithHealthFunction: count, reset, Get,
\* health check, post-ready hook
PollReady ==
    /\ pc = "ready"
    /\ w.polls < w.timeout
    /\ \E storeFails \in BOOLEAN, hookFails \in BOOLEAN :
        LET n == RetryCount(w)
            hookErr == IF w.hook # "nil" /\ hookFails
                       THEN Err("hook", "post ready failed") ELSE Nil
            w1 == [w EXCEPT !.retryCountUntilSevere = n, !.polls = @ + 1]
            answer == GetAnswer(storeFails)
            err == ReadyHealthFunc(w.checkTs, w.expectedTimestamp, GetObject(obj))
            w2 == [w1 EXCEPT !.lastObservedError = err,
                             !.codedPolls = IF err.coded THEN @ + 1 ELSE @]
        IN IF answer # Nil
           THEN /\ obj' = EmptyObj
                /\ obs' = answer.kind
                /\ IF GetSeverity(answer) = "severe"
                   THEN /\ w' = [w1 EXCEPT !.end = "severe"]
                        /\ Return(ReadyError(w.lastObservedError, answer))
                   ELSE /\ w' = [w1 EXCEPT !.minorErr = answer, !.sawNotFound = TRUE]
                        /\ UNCHANGED <<pc, result>>
           ELSE /\ obj' = GetObject(obj)
                /\ IF err # Nil
                   THEN /\ obs' = "unhealthy"
                        /\ IF HealthSeverity(err, n, w.severe) = "severe"
                           THEN /\ w' = [w2 EXCEPT !.end = "severe"]
                                /\ Return(ReadyError(err, err))
                           ELSE /\ w' = [w2 EXCEPT !.minorErr = err]
                                /\ UNCHANGED <<pc, result>>
                   ELSE /\ obs' = "healthy"
                        /\ IF HookSeverity(hookErr) = "severe"
                           THEN /\ w' = [w1 EXCEPT !.hookCalls = @ + 1, !.end = "severe",
                                                 !.hookFailed = TRUE]
                                /\ Return(ReadyError(w.lastObservedError, hookErr))
                           ELSE /\ w' = [w1 EXCEPT !.end = "ok",
                                            !.hookCalls = IF w.hook = "nil" THEN @ ELSE @ + 1,
                                            !.hookFailed = (hookErr # Nil)]
                                /\ Return(Nil)
    /\ UNCHANGED <<present, store, revision, now, call, relay, hist>>
    /\ UNCHANGED extVars

\* retry.UntilTimeout: the deadline passes while the loop waits for the next
\* interval; the retry error carries the last minor error
TimeoutReady ==
    /\ pc = "ready"
    /\ w.polls >= w.timeout
    /\ w' = [w EXCEPT !.end = "timeout"]
    /\ Return(ReadyError(w.lastObservedError, Err("timeout", w.minorErr.desc)))
    /\ UNCHANGED <<present, store, revision, now, obj, call, relay, obs, hist>>
    /\ UNCHANGED extVars

(* ------------------------------ deletion ------------------------------ *)

\* DeleteExtensionObject is entered with the passed object
StartDelete(r, fresh) ==
    /\ Begin(IF r THEN "Destroy" ELSE "Delete", r, fresh, "confirm")
    /\ w' = NoWait
    /\ UNCHANGED <<present, store, revision, now>>

DeleteExtensionObject == \E fresh \in BOOLEAN : StartDelete(FALSE, fresh)

\* the object as gutil.ConfirmDeletion leaves it in memory: confirmation
\* annotation and a fresh timestamp
Confirmed(o) == [o EXCEPT !.confirm = TRUE, !.ts = TsString(now)]

\* gutil.ConfirmDeletion: one patch under optimistic lock on the revision
\* the passed object holds (an object without revision has none to lock on)
ConfirmDeletionAnswer(o, storeFails) ==
    IF storeFails THEN FakeErr ELSE PatchAnswer(o, TRUE)

\* mutant: Delete is issued whatever the confirmation patch answered
ConfirmOutcome_AlwaysDelete(answer) == "delete"

\* mutant: a conflict of the confirmation patch is passed over
ConfirmOutcome_IgnoreConflict(answer) ==
    IF answer = Nil \/ answer = ConflictErr THEN "delete"
    ELSE IF answer = NotFoundErr THEN "nil" ELSE "error"

\* what DeleteExtensionObject does with the answer of ConfirmDeletion: go on
\* to Delete, return nil on not-found, return any other error
ConfirmOutcome(answer) ==
    IF answer = Nil THEN "delete"
    ELSE IF answer = NotFoundErr THEN "nil" ELSE "error"

\* DeleteExtensionObject, first half: the confirmation patch and what the
\* function does with its answer
ConfirmStep ==
    /\ pc = "confirm"
    /\ \E storeFails \in BOOLEAN :
        LET answer == ConfirmDeletionAnswer(obj, storeFails)
        IN /\ hist' = [hist EXCEPT !.patchAnswer = answer, !.stale = Stale(obj),
                                   !.wrote = (answer = Nil /\ Patched(obj, Confirmed(obj)) # store)]
           /\ obs' = answer.kind
           /\ IF answer = Nil
              THEN /\ revision < MaxRV
                   /\ Write(Patched(obj, Confirmed(obj)))
                   /\ obj' = Patched(obj, Confirmed(obj))
              ELSE /\ obj' = Confirmed(obj)
                   /\ UNCHANGED <<store, revision>>
           /\ CASE ConfirmOutcome(answer) = "delete" -> pc' = "delete" /\ UNCHANGED result
                [] ConfirmOutcome(answer) = "nil" -> Return(Nil)
                [] OTHER -> Return(answer)
    /\ UNCHANGED <<present, now, call, relay, w>>
    /\ UNCHANGED extVars

\* DeleteExtensionObject, second half: c.Delete, not-found ignored. An object
\* with a finalizer is marked for deletion, any other object is removed
DeleteStep ==
    /\ pc = "delete"
    /\ \E storeFails \in BOOLEAN :
        /\ hist' = [hist EXCEPT !.deleteIssued = TRUE,
                                !.wrote = @ \/ (~storeFails /\ present /\ ~store.deleting)]
        /\ IF storeFails
           THEN /\ obs' = "store"
                /\ Return(FakeErr)
                /\ UNCHANGED <<present, store, revision>>
           ELSE IF ~present
           THEN /\ obs' = "notfound"
                /\ Return(Nil)
                /\ UNCHANGED <<present, store, revision>>
           ELSE /\ obs' = "found"
                /\ Return(Nil)
                /\ IF store.fin
                   THEN /\ revision < MaxRV \/ store.deleting
                        /\ Write(IF store.deleting THEN store
                                 ELSE [store EXCEPT !.deleting = TRUE, !.rv = revision + 1])
                        /\ UNCHANGED present
                   ELSE /\ present' = FALSE
                        /\ store' = EmptyObj
                        /\ UNCHANGED revision
    /\ UNCHANGED <<now, obj, call, relay, w>>
    /\ UNCHANGED extVars

\* WaitUntilExtensionObjectDeleted up to the first poll
StartWaitDeleted(r, fresh, timeout) ==
    /\ Begin(IF r THEN "WaitCleanup" ELSE "WaitDeleted", r, fresh, "deleted")
    /\ w' = [NoWait EXCEPT !.timeout = timeout, !.end = "running"]
    /\ UNCHANGED <<present, store, revision, now>>

WaitUntilExtensionObjectDeleted ==
    \E fresh \in BOOLEAN, timeout \in 1..MaxTimeout : StartWaitDeleted(FALSE, fresh, timeout)

\* the error WaitUntilExtensionObjectDeleted returns when the loop ended
\* mutant: the error of the loop is returned without the last error
DeletedError_LoopErrorOnly(lastObservedError, err) == Err(err.kind, err.desc)

DeletedError(lastObservedError, err) ==
    IF lastObservedError # Nil
    THEN NewErrorWithCodes("lastObserved", lastObservedError.desc,
                           ExtractErrorCodes(lastObservedError))
    ELSE Err(err.kind, err.desc)

\* one poll of WaitUntilExtensionObjectDeleted
PollDeleted ==
    /\ pc = "deleted"
    /\ w.polls < w.timeout
    /\ LET w1 == [w EXCEPT !.polls = @ + 1]
       IN \E storeFails \in BOOLEAN :
          IF GetAnswer(storeFails) = FakeErr
          THEN /\ obj' = EmptyObj
               /\ obs' = "store"
               /\ w' = [w1 EXCEPT !.end = "severe"]
               /\ Return(DeletedError(w.lastObservedError, FakeErr))
          ELSE IF GetAnswer(storeFails) = NotFoundErr
          THEN /\ obj' = EmptyObj
               /\ obs' = "notfound"
               /\ w' = [w1 EXCEPT !.end = "ok"]
               /\ Return(Nil)
          ELSE /\ obj' = GetObject(obj)
               /\ obs' = "found"
               /\ w' = [w1 EXCEPT
                           !.lastObservedError =
                               IF GetObject(obj).lastError # NoLastError
                               THEN NewErrorWithCodes("lastError",
                                                      GetObject(obj).lastError.desc,
                                                      GetObject(obj).lastError.codes)
                               ELSE @,
                           !.minorErr = Err("present", "is still present")]
               /\ UNCHANGED <<pc, result>>
    /\ UNCHANGED <<present, store, revision, now, call, relay, hist>>
    /\ UNCHANGED extVars

TimeoutDeleted ==
    /\ pc = "deleted"
    /\ w.polls >= w.timeout
    /\ w' = [w EXCEPT !.end = "timeout"]
    /\ Return(DeletedError(w.lastObservedError, Err("timeout", w.minorErr.desc)))
    /\ UNCHANGED <<present, store, revision, now, obj, call, relay, obs, hist>>
    /\ UNCHANGED extVars

(* ------------------------------ migration ----------------------------- *)

\* mutant: an annotation the object already has is not overwritten
Annotated_KeepExisting(o, operation) ==
    [o EXCEPT !.op = IF o.op = "none" THEN operation ELSE o.op,
              !.ts = IF o.ts = NoTs THEN TsString(now) ELSE o.ts]

\* the object as AnnotateObjectWithOperation leaves it in memory
Annotated(o, operation) == [o EXCEPT !.op = operation, !.ts = TsString(now)]

\* the patch of AnnotateObjectWithOperation is client.MergeFrom of the passed
\* object without options: it carries no resourceVersion
AnnotateAnswer(o, storeFails) ==
    IF storeFails THEN FakeErr ELSE PatchAnswer(o, FALSE)

\* mutant: the annotated in-memory object replaces the stored one (Update)
AnnotatePatched_Update(o, operation) ==
    [Annotated(o, operation) EXCEPT !.rv = revision + 1]

\* the stored object after the patch of AnnotateObjectWithOperation
AnnotatePatched(o, operation) == Patched(o, Annotated(o, operation))

\* mutant: not-found is returned
IgnoreNotFound_Keep(err) == err

\* client.IgnoreNotFound
IgnoreNotFound(err) == IF err = NotFoundErr THEN Nil ELSE err

\* AnnotateObjectWithOperation, called by a driver on the object it holds
AnnotateObjectWithOperation ==
    /\ pc = "idle"
    /\ "Annotate" \in Follows
    /\ \E fresh \in BOOLEAN, operation \in {"reconcile", "migrate"}, storeFails \in BOOLEAN :
        LET o == IF fresh THEN EmptyObj ELSE obj
            answer == AnnotateAnswer(o, storeFails)
        IN /\ call' = "Annotate"
           /\ relay' = FALSE
           /\ hist' = [NoHist EXCEPT !.patchAnswer = answer, !.stale = Stale(o),
                                     !.passedTs = o.ts,
                                     !.wrote = (answer = Nil)]
           /\ obs' = answer.kind
           /\ result' = answer
           /\ IF answer = Nil
              THEN /\ revision < MaxRV
                   /\ Write(AnnotatePatched(o, operation))
                   /\ obj' = AnnotatePatched(o, operation)
              ELSE /\ obj' = Annotated(o, operation)
                   /\ UNCHANGED <<store, revision>>
    /\ w' = NoWait
    /\ UNCHANGED <<present, now, pc>>
    /\ UNCHANGED extVars

\* AnnotateObjectWithOperation called again by the same driver, on the
\* object the first call left in memory and with the same operation
AnnotateAgain ==
    /\ pc = "idle"
    /\ call = "Annotate"
    /\ result = Nil
    /\ \E storeFails \in BOOLEAN :
        LET o == obj
            operation == obj.op
            answer == AnnotateAnswer(o, storeFails)
        IN /\ hist' = [NoHist EXCEPT !.patchAnswer = answer, !.stale = Stale(o),
                                     !.passedTs = o.ts,
                                     !.wrote = (answer = Nil),
                                     !.again = TRUE]
           /\ obs' = answer.kind
           /\ result' = answer
           /\ IF answer = Nil
              THEN /\ revision < MaxRV
                   /\ Write(AnnotatePatched(o, operation))
                   /\ obj' = AnnotatePatched(o, operation)
              ELSE /\ obj' = Annotated(o, operation)
                   /\ UNCHANGED <<store, revision>>
    /\ w' = NoWait
    /\ UNCHANGED <<present, now, pc, call, relay>>
    /\ UNCHANGED extVars

\* MigrateExtensionObject: the migrate annotation, not-found ignored
MigrateExtensionObject ==
    /\ pc = "idle"
    /\ "Migrate" \in Follows
    /\ \E fresh \in BOOLEAN, storeFails \in BOOLEAN :
        LET o == IF fresh THEN EmptyObj ELSE obj
            answer == AnnotateAnswer(o, storeFails)
        IN /\ call' = "Migrate"
           /\ relay' = FALSE
           /\ hist' = [NoHist EXCEPT !.patchAnswer = answer, !.stale = Stale(o),
                                     !.passedTs = o.ts,
                                     !.wrote = (answer = Nil)]
           /\ obs' = answer.kind
           /\ result' = IgnoreNotFound(answer)
           /\ IF answer = Nil
              THEN /\ revision < MaxRV
                   /\ Write(AnnotatePatched(o, "migrate"))
                   /\ obj' = AnnotatePatched(o, "migrate")
              ELSE /\ obj' = Annotated(o, "migrate")
                   /\ UNCHANGED <<store, revision>>
    /\ w' = NoWait
    /\ UNCHANGED <<present, now, pc>>
    /\ UNCHANGED extVars

\* WaitUntilExtensionObjectMigrated up to the first poll
StartWaitMigrated(fresh, timeout) ==
    /\ Begin("WaitMigrated", FALSE, fresh, "migrated")
    /\ w' = [NoWait EXCEPT !.timeout = timeout, !.end = "running"]
    /\ UNCHANGED <<present, store, revision, now>>

WaitUntilExtensionObjectMigrated ==
    \E fresh \in BOOLEAN, timeout \in 1..MaxTimeout : StartWaitMigrated(fresh, timeout)

\* mutant: the type of the last operation is not looked at
IsMigrated_StateOnly(o) == o.state = "Succeeded"

\* the last operation of o is Migrate and Succeeded
IsMigrated(o) == o.optype = "Migrate" /\ o.state = "Succeeded"

\* one poll of WaitUntilExtensionObjectMigrated
PollMigrated ==
    /\ pc = "migrated"
    /\ w.polls < w.timeout
    /\ \E storeFails \in BOOLEAN :
        LET w1 == [w EXCEPT !.polls = @ + 1]
            answer == GetAnswer(storeFails)
        IN IF answer = NotFoundErr
           THEN /\ obj' = EmptyObj
                /\ obs' = "notfound"
                /\ w' = [w1 EXCEPT !.end = "ok"]
                /\ Return(Nil)
           ELSE IF answer # Nil
           THEN /\ obj' = EmptyObj
                /\ obs' = "store"
                /\ w' = [w1 EXCEPT !.end = "severe"]
                /\ Return(answer)
           ELSE /\ obj' = GetObject(obj)
                /\ IF IsMigrated(GetObject(obj))
                   THEN /\ obs' = "healthy"
                        /\ w' = [w1 EXCEPT !.end = "ok"]
                        /\ Return(Nil)
                   ELSE /\ obs' = "unhealthy"
                        /\ w' = [w1 EXCEPT !.minorErr =
                                    Err("migrate", "lastOperation is not Migrate=Succeeded")]
                        /\ UNCHANGED <<pc, result>>
    /\ UNCHANGED <<present, store, revision, now, call, relay, hist>>
    /\ UNCHANGED extVars

TimeoutMigrated ==
    /\ pc = "migrated"
    /\ w.polls >= w.timeout
    /\ w' = [w EXCEPT !.end = "timeout"]
    /\ Return(Err("timeout", w.minorErr.desc))
    /\ UNCHANGED <<present, store, revision, now, obj, call, relay, obs, hist>>
    /\ UNCHANGED extVars

(* ----------------- the backup relay component (upload, download) ------ *)

\* the relay object as the mutate function of Deploy leaves it in memory
Deployed(o) == [o EXCEPT !.op = "reconcile", !.ts = TsRFC3339(now), !.spec = "values"]

\* Deploy, first half: GetAndCreateOrMergePatch reads the relay object into
\* a local emptyBackupUpload()
DeployGet ==
    /\ pc = "idle"
    /\ call' = "Deploy"
    /\ relay' = TRUE
    /\ "Deploy" \in Follows
    /\ hist' = NoHist
    /\ w' = NoWait
    /\ \E storeFails \in BOOLEAN :
        LET answer == GetAnswer(storeFails)
        IN /\ obs' = IF answer = Nil THEN "found" ELSE answer.kind
           /\ obj' = IF answer = Nil THEN store ELSE EmptyObj
           /\ IF GetSeverity(answer) = "severe"
              THEN /\ result' = answer /\ UNCHANGED pc
              ELSE /\ result' = Pending /\ pc' = "deploy"
    /\ UNCHANGED <<present, store, revision, now>>
    /\ UNCHANGED extVars

\* Deploy, second half: the object is created if the read did not find it
\* and merge-patched otherwise
DeployWrite ==
    /\ pc = "deploy"
    /\ \E storeFails \in BOOLEAN :
        LET m == Deployed(obj)
            answer == IF storeFails THEN FakeErr
                      ELSE IF obs = "notfound"
                           THEN IF present THEN Err("exists", "already exists") ELSE Nil
                           ELSE PatchAnswer(obj, FALSE)
        IN /\ Return(answer)
           /\ IF answer = Nil
              THEN /\ revision < MaxRV
                   /\ present' = TRUE
                   /\ IF obs = "notfound"
                      THEN /\ Write([m EXCEPT !.rv = revision + 1])
                           /\ obj' = [m EXCEPT !.rv = revision + 1]
                      ELSE /\ Write(Patched(obj, m))
                           /\ obj' = Patched(obj, m)
                   /\ hist' = [hist EXCEPT !.deployedTs = m.ts, !.wrote = TRUE]
              ELSE /\ obj' = m
                   /\ UNCHANGED <<present, store, revision, hist>>
    /\ UNCHANGED <<now, call, relay, w, obs>>
    /\ UNCHANGED extVars

\* Wait of the relay component: WaitUntilExtensionObjectReady on
\* emptyBackupUpload(), no post-ready hook
Wait ==
    \E severe \in 0..MaxSevere, timeout \in 1..MaxTimeout :
        StartWaitReady(TRUE, TRUE, severe, timeout, "nil")

\* Destroy of the relay component
Destroy == StartDelete(TRUE, TRUE)

\* WaitCleanup of the relay component
WaitCleanup == \E timeout \in 1..MaxTimeout : StartWaitDeleted(TRUE, TRUE, timeout)

(* ------------------------------- restore ------------------------------ *)

\* the kind the restore functions are called with, and the name of the object
RestoreKind == "Worker"
ObjName == "w1"
\* the purposes an extension object can have ("none": no purpose set)
Purposes == {"none", "exposure"}
\* the resource references an entry of the ShootState can hold
ResourceRefs == {"r1", "r2"}

\* the State of an entry is raw JSON: a sequence of bytes, 0 for a white space
\* between tokens and <<>> for no State at all
RestoreStates == {<<1>>, <<2>>}

\* the entries a ShootState can hold under Spec.Extensions
Entries ==
    [kind : {"Worker", "Infrastructure"}, name : {"w1", "w2"}, purpose : Purposes,
     state : RestoreStates, resources : {{}, {"r1"}, {"r1", "r2"}}]

EntryKeyOf(e) == <<e.kind, e.name, e.purpose>>

\* the ShootStates handed to the restore functions: at most two entries with
\* different keys, and a resource table with a payload for some references
ShootStates ==
    {[extensions |-> es, resources |-> rs] :
        es \in {{}} \cup UNION {{{a, b} : b \in {x \in Entries :
                                     EntryKeyOf(x) = EntryKeyOf(a) => x = a}} : a \in Entries},
        rs \in SUBSET ResourceRefs}

\* the payload the resource table of the ShootState holds for a reference
PayloadOf(ref) == <<"data", ref>>

\* mutant: the purpose of the object is left out of the lookup
EntryKey_NoPurpose(kind, o) == <<kind, ObjName, "none">>

\* what the entry of an extension object is looked up with
EntryKey(kind, o) == <<kind, ObjName, o.purpose>>

\* ExtensionResourceStateList.Get: the entry whose kind, name and purpose match
ExtensionResourceStateGet(list, key) ==
    IF \E e \in list : EntryKeyOf(e) = key
    THEN CHOOSE e \in list : EntryKeyOf(e) = key
    ELSE NoEntry

\* ResourceDataList.Get: the payload of a reference, "nil" without one
ResourceDataGet(table, ref) == IF ref \in table THEN PayloadOf(ref) ELSE "nil"

\* mutant: the status is patched whether or not an entry was found
StatePatchNeeded_Always(entry) == TRUE

\* the status is patched only if the ShootState holds an entry for the object
StatePatchNeeded(entry) == entry # NoEntry

\* what the loop over the references does with what the table holds for one
RefOutcome(resourceData) == IF resourceData = "nil" THEN "skip" ELSE "create"

\* the object with the state and the resources of an entry set
WithState(o, entry) ==
    [o EXCEPT !.statusState = entry.state, !.resources = entry.resources]

\* mutant: a step that failed is followed by the next one all the same
RestoreNext_IgnoreError(step, err) ==
    CASE step = "deploy" -> "restoreState"
      [] step = "state" -> "restoreAnnotate"
      [] OTHER -> "idle"

\* where RestoreExtensionWithDeployFunction goes after a step returned err
RestoreNext(step, err) ==
    IF err # Nil THEN "idle"
    ELSE CASE step = "deploy" -> "restoreState"
           [] step = "state" -> "restoreAnnotate"
           [] OTHER -> "idle"

\* the state after construction for the restore functions
InitRestore ==
    /\ now = 0
    /\ revision = 1
    /\ \E p \in Purposes :
        /\ obj = [EmptyObj EXCEPT !.purpose = p]
        /\ present \in BOOLEAN
        /\ store = IF present
                   THEN [EmptyObj EXCEPT !.purpose = p, !.rv = 1, !.spec = "values"]
                   ELSE EmptyObj
    /\ pc = "idle"
    /\ call = "none"
    /\ relay = FALSE
    /\ result = Pending
    /\ w = NoWait
    /\ obs = "none"
    /\ hist = NoHist
    /\ namespace = <<>>
    /\ batch = NoBatch
    /\ shootState \in ShootStates
    /\ restore = NoRestore
    /\ backup = NoBackup

\* one step of the restore pipeline is over: the next one, or the return
RestoreStep(step, err) ==
    /\ pc' = RestoreNext(step, err)
    /\ result' = IF pc' = "idle" THEN err ELSE Pending
    /\ restore' = [restore EXCEPT
                     !.steps = IF err = Nil THEN Append(@, step) ELSE @,
                     !.failed = IF err # Nil /\ @ = "none" THEN step ELSE @]

\* RestoreExtensionWithDeployFunction, up to the return of deployFunc: the
\* function is handed wait-for-state and creates or patches the object
RestoreExtensionWithDeployFunction ==
    /\ pc = "idle"
    /\ call = "none"
    /\ call' = "Restore"
    /\ \E fails \in BOOLEAN, writes \in BOOLEAN :
        LET n == [store EXCEPT !.op = "wait-for-state", !.ts = TsString(now),
                               !.spec = "values", !.purpose = obj.purpose,
                               !.rv = revision + 1]
        IN /\ fails => ~writes
           /\ IF writes
              THEN /\ revision < MaxRV
                   /\ present' = TRUE
                   /\ Write(n)
                   /\ obj' = n
              ELSE UNCHANGED <<present, store, revision, obj>>
           /\ RestoreStep("deploy", IF fails THEN FakeErr ELSE Nil)
    /\ UNCHANGED <<now, relay, w, obs, hist>>
    /\ UNCHANGED <<namespace, batch, shootState, backup>>

\* RestoreExtensionObjectState called on its own
RestoreExtensionObjectState ==
    /\ pc = "idle"
    /\ call = "none"
    /\ backup.stage \in {"none", "loaded"}
    /\ call' = "RestoreState"
    /\ pc' = "restoreState"
    /\ result' = Pending
    /\ UNCHANGED <<present, store, revision, now, obj, relay, w, obs, hist>>
    /\ UNCHANGED extVars

\* the end of RestoreExtensionObjectState
StateReturn(err) ==
    IF call = "Restore"
    THEN RestoreStep("state", err)
    ELSE /\ Return(err)
         /\ restore' = [restore EXCEPT
                          !.steps = IF err = Nil THEN Append(@, "state") ELSE @,
                          !.failed = IF err # Nil THEN "state" ELSE @]

\* RestoreExtensionObjectState: the lookup of the entry and the status patch
RestoreStatePatch ==
    /\ pc = "restoreState"
    /\ \E storeFails \in BOOLEAN :
        LET entry == ExtensionResourceStateGet(shootState.extensions,
                                               EntryKey(RestoreKind, obj))
            m == WithState(obj, entry)
            answer == IF storeFails THEN FakeErr ELSE PatchAnswer(obj, FALSE)
        IN IF StatePatchNeeded(entry)
           THEN IF answer = Nil
                THEN /\ revision < MaxRV
                     /\ Write(Patched(obj, m))
                     /\ obj' = Patched(obj, m)
                     /\ pc' = "restoreRefs"
                     /\ restore' = [restore EXCEPT !.entry = entry, !.patched = TRUE,
                                                   !.resourceRefs = entry.resources]
                     /\ UNCHANGED result
                ELSE /\ obj' = m
                     /\ restore' = [restore EXCEPT !.entry = entry, !.failed = "state"]
                     /\ pc' = "idle"
                     /\ result' = answer
                     /\ UNCHANGED <<store, revision>>
           ELSE /\ ~storeFails
                /\ pc' = "restoreRefs"
                /\ UNCHANGED <<store, revision, obj, result, restore>>
    /\ UNCHANGED <<present, now, call, relay, w, obs, hist>>
    /\ UNCHANGED <<namespace, batch, shootState, backup>>

\* RestoreExtensionObjectState: one turn of the loop over the references
RestoreResource ==
    /\ pc = "restoreRefs"
    /\ restore.resourceRefs # {}
    /\ \E ref \in restore.resourceRefs, storeFails \in BOOLEAN :
        LET resourceData == ResourceDataGet(shootState.resources, ref)
            outcome == RefOutcome(resourceData)
        IN CASE outcome = "skip" ->
                  /\ ~storeFails
                  /\ restore' = [restore EXCEPT !.resourceRefs = @ \ {ref},
                                                !.skipped = @ \cup {ref}]
                  /\ UNCHANGED <<pc, result>>
             [] outcome = "create" /\ ~storeFails ->
                  /\ restore' = [restore EXCEPT !.resourceRefs = @ \ {ref},
                                                !.created = @ \cup {<<ref, resourceData>>}]
                  /\ UNCHANGED <<pc, result>>
             [] outcome = "create" /\ storeFails ->
                  /\ pc' = "idle"
                  /\ result' = FakeErr
                  /\ restore' = [restore EXCEPT !.failed = "state"]
    /\ UNCHANGED <<present, store, revision, now, obj, call, relay, w, obs, hist>>
    /\ UNCHANGED <<namespace, batch, shootState, backup>>

\* RestoreExtensionObjectState: the loop is over and nil is returned
RestoreStateDone ==
    /\ pc = "restoreRefs"
    /\ restore.resourceRefs = {}
    /\ StateReturn(Nil)
    /\ UNCHANGED <<present, store, revision, now, obj, call, relay, w, obs, hist>>
    /\ UNCHANGED <<namespace, batch, shootState, backup>>

\* RestoreExtensionWithDeployFunction: the restore annotation
RestoreAnnotate ==
    /\ pc = "restoreAnnotate"
    /\ \E storeFails \in BOOLEAN :
        LET answer == AnnotateAnswer(obj, storeFails)
        IN /\ IF answer = Nil
              THEN /\ revision < MaxRV
                   /\ Write(AnnotatePatched(obj, "restore"))
                   /\ obj' = AnnotatePatched(obj, "restore")
              ELSE /\ obj' = Annotated(obj, "restore")
                   /\ UNCHANGED <<store, revision>>
           /\ pc' = "idle"
           /\ result' = answer
           /\ restore' = [restore EXCEPT
                            !.steps = IF answer = Nil THEN Append(@, "annotate") ELSE @,
                            !.failed = IF answer # Nil /\ @ = "none"
                                       THEN "annotate" ELSE @]
    /\ UNCHANGED <<present, now, call, relay, w, obs, hist>>
    /\ UNCHANGED <<namespace, batch, shootState, backup>>

\* the clock while a restore runs
RestoreTick ==
    /\ call \in {"Restore", "RestoreState"}
    /\ pc # "idle"
    /\ now < MaxTime
    /\ now' = now + 1
    /\ UNCHANGED <<present, store, revision, obj, pc, call, relay, result, w, obs, hist>>
    /\ UNCHANGED extVars

(* -------------------------------- batch ------------------------------- *)

\* the objects of the namespace the batch functions list
Ids == 1..MaxObjects

\* an object of the namespace
NoObject == [present |-> FALSE, op |-> "none", ts |-> NoTs,
             optype |-> "none", state |-> "none"]
BatchObjects ==
    {NoObject,
     [NoObject EXCEPT !.present = TRUE, !.optype = "Reconcile", !.state = "Succeeded"],
     [NoObject EXCEPT !.present = TRUE, !.optype = "Migrate", !.state = "Succeeded"]}

\* a task flow.Parallel has not run yet
ReadyTask == [status |-> "ready", result |-> Pending, polls |-> 0]

\* mutant: only the first listed object gets a task
ApplyFuncTo_FirstOnly(items) == {i \in items : \A j \in items : i <= j}

\* applyFuncToExtensionObjects with no predicate: one task for every list item
ApplyFuncTo(items) == items

\* flow.Parallel: the tasks run concurrently, every one to its end, and the
\* errors are collected; nil if there is none
Parallel(task) ==
    IF \A i \in DOMAIN task : task[i].result = Nil
    THEN Nil
    ELSE Err("multi", "the errors of the tasks")

\* the state after construction for the batch functions
InitBatch ==
    /\ now = 0
    /\ revision = 1
    /\ present = FALSE
    /\ store = EmptyObj
    /\ obj = EmptyObj
    /\ pc = "idle"
    /\ call = "none"
    /\ relay = FALSE
    /\ result = Pending
    /\ w = NoWait
    /\ obs = "none"
    /\ hist = NoHist
    /\ namespace \in [Ids -> BatchObjects]
    /\ batch = NoBatch
    /\ shootState = NoShootState
    /\ restore = NoRestore
    /\ backup = NoBackup

\* the list of applyFuncToExtensionObjects and the tasks made of it
StartBatch(name, kind, timeout) ==
    /\ pc = "idle"
    /\ call' = name
    /\ \E listFails \in BOOLEAN :
        LET listed == {i \in Ids : namespace[i].present}
        IN IF listFails
           THEN /\ batch' = [kind |-> kind, listOK |-> FALSE, listed |-> {},
                             task |-> <<>>, timeout |-> timeout, done |-> <<>>]
                /\ Return(FakeErr)
           ELSE /\ batch' = [kind |-> kind, listOK |-> TRUE, listed |-> listed,
                             task |-> [i \in ApplyFuncTo(listed) |-> ReadyTask],
                             timeout |-> timeout, done |-> <<>>]
                /\ pc' = "batch"
                /\ result' = Pending
    /\ UNCHANGED <<present, store, revision, now, obj, relay, w, obs, hist>>
    /\ UNCHANGED <<namespace, shootState, restore, backup>>

MigrateExtensionObjects ==
    /\ call = "none"
    /\ StartBatch("MigrateAll", "Migrate", 0)

WaitUntilExtensionObjectsMigrated ==
    /\ call = "none" \/ (call = "MigrateAll" /\ result = Nil)
    /\ \E timeout \in 1..MaxTimeout : StartBatch("WaitAllMigrated", "WaitMigrated", timeout)

\* a task is over
TaskDone(i, r, polls) ==
    batch' = [batch EXCEPT !.task[i] = [status |-> "done", result |-> r, polls |-> polls],
                           !.done = Append(@, i)]

\* MigrateExtensionObject as the task of one listed object
BatchMigrate ==
    /\ pc = "batch"
    /\ batch.kind = "Migrate"
    /\ \E i \in DOMAIN batch.task, storeFails \in BOOLEAN :
        LET answer == IF storeFails THEN FakeErr
                      ELSE IF ~namespace[i].present THEN NotFoundErr
                      ELSE Nil
        IN /\ batch.task[i].status = "ready"
           /\ namespace' = IF answer = Nil
                           THEN [namespace EXCEPT ![i].op = "migrate",
                                                  ![i].ts = TsString(now)]
                           ELSE namespace
           /\ TaskDone(i, IgnoreNotFound(answer), 0)
    /\ UNCHANGED driverVars
    /\ UNCHANGED <<shootState, restore, backup>>

\* one poll of WaitUntilExtensionObjectMigrated as the task of one listed object
BatchPollMigrated ==
    /\ pc = "batch"
    /\ batch.kind = "WaitMigrated"
    /\ \E i \in DOMAIN batch.task, storeFails \in BOOLEAN :
        LET t == batch.task[i]
        IN /\ t.status = "ready"
           /\ t.polls < batch.timeout
           /\ IF storeFails
              THEN TaskDone(i, FakeErr, t.polls + 1)
              ELSE IF ~namespace[i].present \/ IsMigrated(namespace[i])
              THEN TaskDone(i, Nil, t.polls + 1)
              ELSE batch' = [batch EXCEPT !.task[i].polls = @ + 1]
    /\ UNCHANGED driverVars
    /\ UNCHANGED <<namespace, shootState, restore, backup>>

\* the wait of one listed object runs out of time
BatchTimeoutMigrated ==
    /\ pc = "batch"
    /\ batch.kind = "WaitMigrated"
    /\ \E i \in DOMAIN batch.task :
        /\ batch.task[i].status = "ready"
        /\ batch.task[i].polls >= batch.timeout
        /\ TaskDone(i, Err("timeout", "lastOperation is not Migrate=Succeeded"),
                    batch.task[i].polls)
    /\ UNCHANGED driverVars
    /\ UNCHANGED <<namespace, shootState, restore, backup>>

\* flow.Parallel returns when every task is over
BatchReturn ==
    /\ pc = "batch"
    /\ \A i \in DOMAIN batch.task : batch.task[i].status = "done"
    /\ Return(Parallel(batch.task))
    /\ UNCHANGED <<present, store, revision, now, obj, call, relay, w, obs, hist>>
    /\ UNCHANGED extVars

\* the agent of an object annotated with migrate reports the migration done
BatchAgentMigrated ==
    /\ pc = "batch"
    /\ \E i \in Ids :
        /\ namespace[i].present
        /\ namespace[i].op = "migrate"
        /\ namespace' = [namespace EXCEPT ![i].op = "none", ![i].optype = "Migrate",
                                          ![i].state = "Succeeded"]
    /\ UNCHANGED driverVars
    /\ UNCHANGED <<batch, shootState, restore, backup>>

\* another client deletes an object while the batch runs
BatchExternalDelete ==
    /\ pc = "batch"
    /\ \E i \in Ids :
        /\ namespace[i].present
        /\ namespace' = [namespace EXCEPT ![i] = NoObject]
    /\ UNCHANGED driverVars
    /\ UNCHANGED <<batch, shootState, restore, backup>>

(* ------------------------------- backup ------------------------------- *)

\* the bytes of the model: three bits wide
ByteRange == 8
\* the block size of the cipher, in bytes: the first block of a ciphertext is the iv
BlockSize == 1
\* the key of both sides
cipherKey == 5

Bit(x, k) == (x \div (2 ^ k)) % 2

\* the bitwise exclusive or of two bytes
Xor(a, b) ==
    ((Bit(a, 0) + Bit(b, 0)) % 2)
    + 2 * ((Bit(a, 1) + Bit(b, 1)) % 2)
    + 4 * ((Bit(a, 2) + Bit(b, 2)) % 2)

\* the block cipher: for every key a permutation of the blocks
EncryptBlock(key, x) == (3 * x + key) % ByteRange

RECURSIVE CFBEncrypt(_, _, _)
\* cipher.NewCFBEncrypter: a block is xored with the encryption of the
\* ciphertext block before it, the first one with that of the iv
CFBEncrypt(key, prev, data) ==
    IF data = <<>> THEN <<>>
    ELSE LET c == Xor(Head(data), EncryptBlock(key, prev))
         IN  <<c>> \o CFBEncrypt(key, c, Tail(data))

RECURSIVE CFBDecrypt(_, _, _)
\* cipher.NewCFBDecrypter
CFBDecrypt(key, prev, data) ==
    IF data = <<>> THEN <<>>
    ELSE <<Xor(Head(data), EncryptBlock(key, prev))>>
             \o CFBDecrypt(key, Head(data), Tail(data))

\* encrypt: the random iv, then the encrypted data
encrypt(key, iv, data) == <<iv>> \o CFBEncrypt(key, iv, data)

\* mutant: the iv is not taken from the ciphertext
decrypt_ZeroIV(key, data) ==
    IF Len(data) < BlockSize
    THEN [err |-> "Ciphertext block size is too short!", data |-> <<>>]
    ELSE [err |-> "nil", data |-> CFBDecrypt(key, 0, SubSeq(data, BlockSize + 1, Len(data)))]

\* decrypt: the first block is the iv, the rest is decrypted with it
decrypt(key, data) ==
    IF Len(data) < BlockSize
    THEN [err |-> "Ciphertext block size is too short!", data |-> <<>>]
    ELSE [err |-> "nil",
          data |-> CFBDecrypt(key, data[BlockSize], SubSeq(data, BlockSize + 1, Len(data)))]

\* the bytes kinds, names, purposes and references are written as
KindCode(k) == CASE k = "Worker" -> 1 [] k = "Infrastructure" -> 2
NameCode(n) == CASE n = "w1" -> 1 [] n = "w2" -> 2
PurposeCode(p) == CASE p = "none" -> 0 [] p = "exposure" -> 1
RefCode(r) == CASE r = "r1" -> 1 [] r = "r2" -> 2
Kinds == {"Worker", "Infrastructure"}
Names == {"w1", "w2"}

IsToken(b) == b # 0

\* what json.Marshal writes for a raw State: the white space between the
\* tokens is dropped
Compact(raw) == SelectSeq(raw, IsToken)

RECURSIVE RefSeq(_)
\* the references of a list, in the order of their bytes
RefSeq(rs) ==
    IF rs = {} THEN <<>>
    ELSE LET r == CHOOSE x \in rs : \A y \in rs : RefCode(x) <= RefCode(y)
         IN  <<RefCode(r)>> \o RefSeq(rs \ {r})

\* one entry: kind, name, purpose, the State with its length, the references
\* with their number
MarshalEntry(e) ==
    LET c == Compact(e.state)
    IN  <<KindCode(e.kind), NameCode(e.name), PurposeCode(e.purpose), Len(c)>> \o c
            \o <<Cardinality(e.resources)>> \o RefSeq(e.resources)

EntryOrder(e) == 4 * KindCode(e.kind) + 2 * NameCode(e.name) + PurposeCode(e.purpose)

RECURSIVE MarshalEntries(_)
MarshalEntries(es) ==
    IF es = {} THEN <<>>
    ELSE LET e == CHOOSE x \in es : \A y \in es : EntryOrder(x) <= EntryOrder(y)
         IN  MarshalEntry(e) \o MarshalEntries(es \ {e})

\* json.Marshal of a ShootState: the entries with their number, then the
\* resource table with its size
Marshal(s) ==
    <<Cardinality(s.extensions)>> \o MarshalEntries(s.extensions)
        \o <<Cardinality(s.resources)>> \o RefSeq(s.resources)

RECURSIVE ParseRefs(_, _, _)
\* n references read from position pos on, and the position after them;
\* position 0 stands for bytes that cannot be read
ParseRefs(raw, pos, n) ==
    IF n = 0 \/ pos = 0 THEN [refs |-> {}, pos |-> pos]
    ELSE IF pos > Len(raw) \/ raw[pos] \notin {RefCode(r) : r \in ResourceRefs}
    THEN [refs |-> {}, pos |-> 0]
    ELSE LET rest == ParseRefs(raw, pos + 1, n - 1)
         IN  [refs |-> {CHOOSE r \in ResourceRefs : RefCode(r) = raw[pos]} \cup rest.refs,
              pos |-> rest.pos]

\* one entry read from position pos on
ParseEntry(raw, pos) ==
    IF \/ pos + 4 > Len(raw)
       \/ raw[pos] \notin {KindCode(k) : k \in Kinds}
       \/ raw[pos + 1] \notin {NameCode(n) : n \in Names}
       \/ raw[pos + 2] \notin {PurposeCode(p) : p \in Purposes}
       \/ pos + 4 + raw[pos + 3] > Len(raw)
    THEN [entry |-> NoEntry, pos |-> 0]
    ELSE LET slen == raw[pos + 3]
             rs == ParseRefs(raw, pos + 5 + slen, raw[pos + 4 + slen])
         IN  [entry |-> [kind |-> CHOOSE k \in Kinds : KindCode(k) = raw[pos],
                         name |-> CHOOSE n \in Names : NameCode(n) = raw[pos + 1],
                         purpose |-> CHOOSE p \in Purposes : PurposeCode(p) = raw[pos + 2],
                         state |-> SubSeq(raw, pos + 4, pos + 3 + slen),
                         resources |-> rs.refs],
              pos |-> rs.pos]

RECURSIVE ParseEntries(_, _, _)
ParseEntries(raw, pos, n) ==
    IF n = 0 \/ pos = 0 THEN [entries |-> {}, pos |-> pos]
    ELSE LET e == ParseEntry(raw, pos)
             rest == ParseEntries(raw, e.pos, n - 1)
         IN  [entries |-> {e.entry} \cup rest.entries, pos |-> rest.pos]

\* json.Unmarshal into a ShootState
Unmarshal(raw) ==
    LET es == IF Len(raw) = 0 THEN [entries |-> {}, pos |-> 0]
              ELSE ParseEntries(raw, 2, raw[1])
        tb == IF es.pos = 0 \/ es.pos > Len(raw) THEN [refs |-> {}, pos |-> 0]
              ELSE ParseRefs(raw, es.pos + 1, raw[es.pos])
    IN  IF tb.pos # Len(raw) + 1
        THEN [err |-> "failed unmarshaling raw ShootState", shootState |-> NoShootState]
        ELSE [err |-> "nil",
              shootState |-> [extensions |-> es.entries, resources |-> tb.refs]]

\* the States of the entries of a snapshot to upload: none, compact JSON, and
\* JSON with white space between its tokens
BackupStates == {<<>>, <<1>>, <<1, 0, 2>>}

BackupEntries ==
    [kind : {"Worker"}, name : {"w1"}, purpose : Purposes,
     state : BackupStates, resources : {{}, {"r1"}}]

\* the snapshots to upload: the entries have different keys
Snapshots ==
    {[extensions |-> es, resources |-> rs] :
        es \in {{}} \cup UNION {{{a, b} : b \in {x \in BackupEntries :
                                     EntryKeyOf(x) = EntryKeyOf(a) => x = a}} : a \in BackupEntries},
        rs \in SUBSET {"r1"}}

\* the state after construction for the round trip of a snapshot: the
\* snapshot is computed, the object to restore is freshly deployed
InitBackup ==
    /\ now = 0
    /\ revision = 1
    /\ present = TRUE
    /\ \E p \in Purposes :
        /\ obj = [EmptyObj EXCEPT !.purpose = p, !.rv = 1, !.spec = "values",
                                  !.op = "wait-for-state", !.ts = TsString(0)]
        /\ store = obj
    /\ pc = "idle"
    /\ call = "none"
    /\ relay = FALSE
    /\ result = Pending
    /\ w = NoWait
    /\ obs = "none"
    /\ hist = NoHist
    /\ namespace = <<>>
    /\ batch = NoBatch
    /\ shootState = NoShootState
    /\ restore = NoRestore
    /\ \E s \in Snapshots : backup = [NoBackup EXCEPT !.stage = "snapshot", !.snapshot = s]

\* computeDataForShootStateBackupUpload: the snapshot is marshalled and encrypted
ComputeDataForShootStateBackupUpload ==
    /\ backup.stage = "snapshot"
    /\ \E iv \in 0..(ByteRange - 1) :
        backup' = [backup EXCEPT !.stage = "uploaded",
                                 !.data = encrypt(cipherKey, iv, Marshal(backup.snapshot))]
    /\ UNCHANGED driverVars
    /\ UNCHANGED <<namespace, batch, shootState, restore>>

\* loadShootState: the data is decrypted and unmarshalled into the ShootState
LoadShootState ==
    /\ backup.stage = "uploaded"
    /\ LET raw == decrypt(cipherKey, backup.data)
           u == Unmarshal(raw.data)
       IN IF raw.err # "nil"
          THEN /\ backup' = [backup EXCEPT !.stage = "failed", !.err = raw.err]
               /\ UNCHANGED shootState
          ELSE IF u.err # "nil"
          THEN /\ backup' = [backup EXCEPT !.stage = "failed", !.err = u.err]
               /\ UNCHANGED shootState
          ELSE /\ backup' = [backup EXCEPT !.stage = "loaded"]
               /\ shootState' = u.shootState
    /\ UNCHANGED driverVars
    /\ UNCHANGED <<namespace, batch, restore>>

(* ------------------------------ snapshot ------------------------------ *)

\* the extension objects the seed can hold: kind and name
LiveKeys == {<<"Worker", "w1">>, <<"Worker", "w2">>, <<"Infrastructure", "w1">>}

\* an extension object of the seed as the snapshot reads it
NoLive == [present |-> FALSE, purpose |-> "none", state |-> <<>>, resources |-> {},
           deleting |-> FALSE]
LiveObjects ==
    {NoLive} \cup
    [present : {TRUE}, purpose : Purposes, state : {<<1>>},
     resources : {{}, {"r1"}, {"r1", "r2"}}, deleting : BOOLEAN]

\* the contents a referenced object can have
Contents == {"old", "new"}

\* the position of the element of a list with the key k, 0 if there is none
IndexOf(keys, k) ==
    IF \E i \in 1..Len(keys) : keys[i] = k
    THEN CHOOSE i \in 1..Len(keys) : keys[i] = k
    ELSE 0

\* Upsert of the helper lists: the element with the same key is replaced,
\* an element with a new key is appended
Upsert(list, keys, e, k) ==
    LET i == IndexOf(keys, k)
    IN  IF i = 0 THEN Append(list, e) ELSE [list EXCEPT ![i] = e]

RefOf(d) == d.ref

\* mutant: the payload is appended whether or not the list holds the reference
AddResource_Append(list, d) == Append(list, d)

\* the payload of a referenced object is put into the resources of the snapshot
AddResource(list, d) ==
    Upsert(list, [i \in 1..Len(list) |-> RefOf(list[i])], d, RefOf(d))

\* the entry of an extension object is put into the extensions of the snapshot
AddExtension(list, e) ==
    Upsert(list, [i \in 1..Len(list) |-> EntryKeyOf(list[i])], e, EntryKeyOf(e))

\* the entry computed for a live object
EntryFor(k, o) ==
    [kind |-> k[1], name |-> k[2], purpose |-> o.purpose, state |-> o.state,
     resources |-> o.resources]

RECURSIVE AddResources(_, _, _)
\* the loop over the status resources of one object
AddResources(list, rs, referenced) ==
    IF rs = {} THEN list
    ELSE LET r == CHOOSE x \in rs : \A y \in rs : RefCode(x) <= RefCode(y)
         IN  AddResources(AddResource(list, [ref |-> r, data |-> referenced[r]]),
                          rs \ {r}, referenced)

\* the state after construction for the computation of the snapshot
InitSnapshot ==
    /\ now = 0
    /\ revision = 1
    /\ present = FALSE
    /\ store = EmptyObj
    /\ obj = EmptyObj
    /\ pc = "idle"
    /\ call = "none"
    /\ relay = FALSE
    /\ result = Pending
    /\ w = NoWait
    /\ obs = "none"
    /\ hist = NoHist
    /\ namespace \in [LiveKeys -> LiveObjects]
    /\ batch = NoBatch
    /\ shootState = NoShootState
    /\ restore = NoRestore
    /\ backup = [NoBackup EXCEPT !.referenced = [r \in ResourceRefs |-> "old"]]

\* computeShootStateExtensionsDataAndResources starts: both lists are new
ComputeShootStateExtensionsDataAndResources ==
    /\ backup.stage \in {"none", "snapshot", "failed"}
    /\ backup.runs < MaxRuns
    /\ backup' = [backup EXCEPT !.stage = "computing", !.extensions = <<>>,
                                !.resources = <<>>, !.pending = LiveKeys,
                                !.runs = @ + 1]
    /\ UNCHANGED driverVars
    /\ UNCHANGED <<namespace, batch, shootState, restore>>

\* one list item: an object being deleted is left out; the entry is upserted,
\* then the payload of every status resource is read and upserted
ComputeItem ==
    /\ backup.stage = "computing"
    /\ \E k \in backup.pending, readFails \in BOOLEAN :
        LET o == namespace[k]
            rest == backup.pending \ {k}
        IN IF ~o.present \/ o.deleting
           THEN /\ ~readFails
                /\ backup' = [backup EXCEPT !.pending = rest]
           ELSE IF readFails
           THEN /\ o.resources # {}
                /\ backup' = [backup EXCEPT !.stage = "failed", !.pending = {},
                                            !.err = "failed reading referenced object"]
           ELSE backup' = [backup EXCEPT
                    !.pending = rest,
                    !.extensions = AddExtension(@, EntryFor(k, o)),
                    !.resources = AddResources(@, o.resources, backup.referenced)]
    /\ UNCHANGED driverVars
    /\ UNCHANGED <<namespace, batch, shootState, restore>>

\* every list is through: the two lists are the snapshot
ComputeDone ==
    /\ backup.stage = "computing"
    /\ backup.pending = {}
    /\ backup' = [backup EXCEPT
            !.stage = "snapshot",
            !.snapshot = [extensions |-> {backup.extensions[i] :
                                            i \in 1..Len(backup.extensions)},
                          resources |-> {backup.resources[i].ref :
                                            i \in 1..Len(backup.resources)}]]
    /\ UNCHANGED driverVars
    /\ UNCHANGED <<namespace, batch, shootState, restore>>

\* a referenced object is changed while the snapshot is computed
SnapshotExternalUpdate ==
    /\ backup.stage = "computing"
    /\ \E r \in ResourceRefs :
        /\ backup.referenced[r] = "old"
        /\ backup' = [backup EXCEPT !.referenced[r] = "new"]
    /\ UNCHANGED driverVars
    /\ UNCHANGED <<namespace, batch, shootState, restore>>

(* -------------------------------- save -------------------------------- *)

\* the concurrent invocations of SaveGardenerResourceDataInShootState
Invocations == 1..MaxInvocations

\* an invocation that has not started
NoInvocation == [pc |-> "start", original |-> {}, copy |-> {}, result |-> Pending]

\* what the mutate function of an invocation does to the Gardener data
Mutate(f, i, data) ==
    CASE f = "add" -> data \cup {i}
      [] f = "keep" -> data
      [] OTHER -> data

\* client.StrategicMergeFrom(original): the items added since the original
StrategicMergeFrom(original, modified) == modified \ original

\* the state after construction for SaveGardenerResourceDataInShootState
InitSave ==
    /\ now = 0
    /\ revision = 1
    /\ present = FALSE
    /\ store = EmptyObj
    /\ obj = EmptyObj
    /\ pc = "idle"
    /\ call = "none"
    /\ relay = FALSE
    /\ result = Pending
    /\ w = NoWait
    /\ obs = "none"
    /\ hist = NoHist
    /\ namespace = <<>>
    /\ \E g \in {{}, {0}} :
        /\ shootState = [extensions |-> {}, resources |-> {}, gardener |-> g]
        /\ batch = [NoBatch EXCEPT !.kind = "Save", !.cluster = g,
                                   !.task = [i \in Invocations |-> NoInvocation]]
    /\ restore = NoRestore
    /\ backup = NoBackup

\* SaveGardenerResourceDataInShootState up to the patch: the ShootState of the
\* Shoot is copied, the copy is mutated and compared with the original
SaveMutate ==
    /\ batch.kind = "Save"
    /\ \E i \in Invocations, f \in {"add", "keep", "fail"} :
        LET t == batch.task[i]
            original == shootState.gardener
            copy == Mutate(f, i, original)
        IN /\ t.pc = "start"
           /\ batch' = [batch EXCEPT !.task[i] =
                  IF f = "fail"
                  THEN [t EXCEPT !.pc = "done", !.result = Err("mutate", "f failed")]
                  ELSE IF copy = original
                  THEN [t EXCEPT !.pc = "done", !.result = Nil,
                                 !.original = original, !.copy = copy]
                  ELSE [t EXCEPT !.pc = "patch", !.original = original, !.copy = copy]]
    /\ UNCHANGED driverVars
    /\ UNCHANGED <<namespace, shootState, restore, backup>>

\* GardenClient.Patch: the patch is merged into the ShootState of the cluster
SavePatch ==
    /\ batch.kind = "Save"
    /\ \E i \in Invocations, storeFails \in BOOLEAN :
        LET t == batch.task[i]
        IN /\ t.pc = "patch"
           /\ batch' =
                IF storeFails
                THEN [batch EXCEPT !.task[i] = [t EXCEPT !.pc = "done", !.result = FakeErr]]
                ELSE [batch EXCEPT
                        !.cluster = @ \cup StrategicMergeFrom(t.original, t.copy),
                        !.task[i] = [t EXCEPT !.pc = "set"]]
    /\ UNCHANGED driverVars
    /\ UNCHANGED <<namespace, shootState, restore, backup>>

\* b.Shoot.SetShootState(shootState): the mutated copy replaces the
\* ShootState of the Shoot
SaveSet ==
    /\ batch.kind = "Save"
    /\ \E i \in Invocations :
        LET t == batch.task[i]
        IN /\ t.pc = "set"
           /\ shootState' = [shootState EXCEPT !.gardener = t.copy]
           /\ batch' = [batch EXCEPT !.task[i] = [t EXCEPT !.pc = "done", !.result = Nil]]
    /\ UNCHANGED driverVars
    /\ UNCHANGED <<namespace, restore, backup>>

(* ------------------------ BackupDownload reconciler -------------------- *)

\* a []byte: nil, or a slice of bytes that may be empty
NoData == [nil |-> TRUE, bytes |-> <<>>]
Bytes(b) == [nil |-> FALSE, bytes |-> b]

\* what the actuator can return: an error, nil without an error, or the
\* content of the backup file, which is empty for an empty file
ActuatorAnswers ==
    {[data |-> NoData, err |-> "failed"], [data |-> NoData, err |-> "nil"]}
        \cup {[data |-> Bytes(b), err |-> "nil"] : b \in {<<>>, <<1>>, <<2>>}}

\* Status.Data as the store keeps it: the field is omitted when it is empty
StoredData(d) == IF Len(d.bytes) = 0 THEN NoData ELSE d

\* the BackupDownload object in the memory of the reconciler
NoBd == [lastOperation |-> "none", data |-> NoData, stale |-> FALSE]

\* the stored BackupDownload object, the reconcile in progress and what the
\* actuator returned last
NoDownload == [stage |-> "idle", exists |-> FALSE, lastOperation |-> "none",
              statusData |-> NoData, bd |-> NoBd, dataContent |-> NoData,
              returned |-> [data |-> NoData, err |-> "none"], reconciles |-> 0]

InitDownload ==
    /\ now = 0
    /\ revision = 1
    /\ present = FALSE
    /\ store = EmptyObj
    /\ obj = EmptyObj
    /\ pc = "idle"
    /\ call = "none"
    /\ relay = FALSE
    /\ result = Pending
    /\ w = NoWait
    /\ obs = "none"
    /\ hist = NoHist
    /\ namespace = <<>>
    /\ batch = NoBatch
    /\ shootState = NoShootState
    /\ restore = NoRestore
    /\ backup = NoDownload

\* statusUpdater.Error, whose error the reconciler drops: the last operation
\* of the stored object becomes Error unless the write fails
StatusError(d, fails) ==
    IF fails \/ ~d.exists THEN d ELSE [d EXCEPT !.lastOperation = "Error"]

\* Reconcile: the object is read; a reconcile begins unless it is gone
Reconcile ==
    /\ backup.stage = "idle"
    /\ backup.reconciles < MaxReconciles
    /\ \E storeFails \in BOOLEAN :
        IF storeFails \/ ~backup.exists
        THEN backup' = [backup EXCEPT !.reconciles = @ + 1]
        ELSE backup' = [backup EXCEPT !.reconciles = @ + 1,
                                      !.stage = "processing",
                                      !.dataContent = NoData,
                                      !.bd = [lastOperation |-> backup.lastOperation,
                                              data |-> backup.statusData,
                                              stale |-> FALSE]]
    /\ UNCHANGED driverVars
    /\ UNCHANGED <<namespace, batch, shootState, restore>>

\* statusUpdater.Processing: its error ends the reconcile
ReconcileProcessing ==
    /\ backup.stage = "processing"
    /\ \E fails \in BOOLEAN :
        IF fails \/ ~backup.exists
        THEN backup' = [backup EXCEPT !.stage = "idle"]
        ELSE backup' = [backup EXCEPT !.stage = "actuator",
                                      !.lastOperation = "Processing",
                                      !.bd.lastOperation = "Processing",
                                      !.bd.stale = FALSE]
    /\ UNCHANGED driverVars
    /\ UNCHANGED <<namespace, batch, shootState, restore>>

\* the BackupEntry and the BackupBucket are read and the actuator is called:
\* an error or nil data is reported with statusUpdater.Error
ReconcileActuator ==
    /\ backup.stage = "actuator"
    /\ \E getFails \in BOOLEAN, answer \in ActuatorAnswers, errorFails \in BOOLEAN :
        IF getFails
        THEN backup' = [backup EXCEPT !.stage = "idle"]
        ELSE IF answer.err # "nil" \/ answer.data.nil
        THEN backup' = [StatusError(backup, errorFails) EXCEPT
                           !.stage = "idle", !.returned = answer]
        ELSE backup' = [backup EXCEPT !.stage = "update", !.returned = answer,
                                      !.dataContent = answer.data]
    /\ UNCHANGED driverVars
    /\ UNCHANGED <<namespace, batch, shootState, restore>>

\* bd.Status.Data = dataContent and Status().Update of the object in memory:
\* an error, as for an object that changed or is gone, is reported with
\* statusUpdater.Error
ReconcileStatusUpdate ==
    /\ backup.stage = "update"
    /\ \E storeFails \in BOOLEAN, errorFails \in BOOLEAN :
        LET bd == [backup.bd EXCEPT !.data = backup.dataContent]
        IN IF storeFails \/ ~backup.exists \/ bd.stale
           THEN backup' = [StatusError(backup, errorFails) EXCEPT
                              !.stage = "idle", !.bd = bd]
           ELSE backup' = [backup EXCEPT !.stage = "success",
                                         !.bd = bd,
                                         !.lastOperation = bd.lastOperation,
                                         !.statusData = StoredData(bd.data)]
    /\ UNCHANGED driverVars
    /\ UNCHANGED <<namespace, batch, shootState, restore>>

\* statusUpdater.Success ends the reconcile
ReconcileSuccess ==
    /\ backup.stage = "success"
    /\ \E fails \in BOOLEAN :
        IF fails \/ ~backup.exists
        THEN backup' = [backup EXCEPT !.stage = "idle"]
        ELSE backup' = [backup EXCEPT !.stage = "idle",
                                      !.lastOperation = "Succeeded",
                                      !.bd.lastOperation = "Succeeded"]
    /\ UNCHANGED driverVars
    /\ UNCHANGED <<namespace, batch, shootState, restore>>

\* Deploy of the download component: the object is created, between two
\* reconciles, or its annotations are patched, which makes the object the
\* reconciler holds stale
DownloadDeploy ==
    /\ IF backup.exists
       THEN backup.stage # "idle" /\ ~backup.bd.stale
              /\ backup' = [backup EXCEPT !.bd.stale = TRUE]
       ELSE backup.stage = "idle"
              /\ backup' = [backup EXCEPT !.exists = TRUE]
    /\ UNCHANGED driverVars
    /\ UNCHANGED <<namespace, batch, shootState, restore>>

\* Destroy of the download component: the object has no finalizer and is gone
DownloadDestroy ==
    /\ backup.exists
    /\ backup' = [backup EXCEPT !.exists = FALSE, !.lastOperation = "none",
                                !.statusData = NoData]
    /\ UNCHANGED driverVars
    /\ UNCHANGED <<namespace, batch, shootState, restore>>

(* ---------------------------- specification --------------------------- *)

Next ==
    \/ Tick
    \/ AgentProcessing
    \/ AgentError
    \/ AgentSuccess
    \/ AgentDelete
    \/ ExternalPatch
    \/ ExternalCreate
    \/ ExternalDelete
    \/ ListObjects
    \/ WaitUntilExtensionObjectReady
    \/ PollReady
    \/ TimeoutReady
    \/ DeleteExtensionObject
    \/ ConfirmStep
    \/ DeleteStep
    \/ WaitUntilExtensionObjectDeleted
    \/ PollDeleted
    \/ TimeoutDeleted
    \/ AnnotateObjectWithOperation
    \/ MigrateExtensionObject
    \/ WaitUntilExtensionObjectMigrated
    \/ PollMigrated
    \/ TimeoutMigrated
    \/ DeployGet
    \/ DeployWrite
    \/ Wait
    \/ Destroy
    \/ WaitCleanup

Spec == Init /\ [][Next]_vars

\* the readiness wait of a driver that lists and annotates the object
NextReady ==
    \/ Tick
    \/ AgentProcessing
    \/ AgentError
    \/ AgentSuccess
    \/ AgentDelete
    \/ ExternalPatch
    \/ ExternalCreate
    \/ ExternalDelete
    \/ ListObjects
    \/ AnnotateObjectWithOperation
    \/ WaitUntilExtensionObjectReady
    \/ PollReady
    \/ TimeoutReady

SpecReady == Init /\ [][NextReady]_vars

\* the backup relay component
NextRelay ==
    \/ Tick
    \/ AgentProcessing
    \/ AgentError
    \/ AgentSuccess
    \/ AgentDelete
    \/ ExternalPatch
    \/ ExternalCreate
    \/ ExternalDelete
    \/ DeployGet
    \/ DeployWrite
    \/ Wait
    \/ PollReady
    \/ TimeoutReady
    \/ Destroy
    \/ ConfirmStep
    \/ DeleteStep
    \/ WaitCleanup
    \/ PollDeleted
    \/ TimeoutDeleted

SpecRelay == Init /\ [][NextRelay]_vars

\* deletion and migration by a driver that lists the object
NextCleanup ==
    \/ Tick
    \/ AgentProcessing
    \/ AgentError
    \/ AgentSuccess
    \/ AgentDelete
    \/ ExternalPatch
    \/ ExternalCreate
    \/ ExternalDelete
    \/ ListObjects
    \/ DeleteExtensionObject
    \/ ConfirmStep
    \/ DeleteStep
    \/ WaitUntilExtensionObjectDeleted
    \/ PollDeleted
    \/ TimeoutDeleted
    \/ AnnotateObjectWithOperation
    \/ MigrateExtensionObject
    \/ WaitUntilExtensionObjectMigrated
    \/ PollMigrated
    \/ TimeoutMigrated

SpecCleanup == Init /\ [][NextCleanup]_vars

\* every wait and the deletion of a driver that lists the object
NextFrame ==
    \/ Tick
    \/ AgentProcessing
    \/ AgentError
    \/ AgentSuccess
    \/ AgentDelete
    \/ ExternalPatch
    \/ ExternalCreate
    \/ ExternalDelete
    \/ ListObjects
    \/ WaitUntilExtensionObjectReady
    \/ PollReady
    \/ TimeoutReady
    \/ DeleteExtensionObject
    \/ ConfirmStep
    \/ DeleteStep
    \/ WaitUntilExtensionObjectDeleted
    \/ PollDeleted
    \/ TimeoutDeleted
    \/ WaitUntilExtensionObjectMigrated
    \/ PollMigrated
    \/ TimeoutMigrated

SpecFrame == Init /\ [][NextFrame]_vars

\* a driver that annotates the object and annotates it again
NextAnnotate ==
    \/ Tick
    \/ AgentProcessing
    \/ AgentError
    \/ AgentSuccess
    \/ ExternalPatch
    \/ ListObjects
    \/ AnnotateObjectWithOperation
    \/ AnnotateAgain

SpecAnnotate == Init /\ [][NextAnnotate]_vars

\* the BackupDownload reconciler and the download component
NextDownload ==
    \/ Reconcile
    \/ ReconcileProcessing
    \/ ReconcileActuator
    \/ ReconcileStatusUpdate
    \/ ReconcileSuccess
    \/ DownloadDeploy
    \/ DownloadDestroy

SpecDownload == InitDownload /\ [][NextDownload]_vars

\* the restore functions
NextRestore ==
    \/ RestoreTick
    \/ RestoreExtensionWithDeployFunction
    \/ RestoreExtensionObjectState
    \/ RestoreStatePatch
    \/ RestoreResource
    \/ RestoreStateDone
    \/ RestoreAnnotate

SpecRestore == InitRestore /\ [][NextRestore]_vars

\* the batch functions
NextBatch ==
    \/ MigrateExtensionObjects
    \/ WaitUntilExtensionObjectsMigrated
    \/ BatchMigrate
    \/ BatchPollMigrated
    \/ BatchTimeoutMigrated
    \/ BatchReturn
    \/ BatchAgentMigrated
    \/ BatchExternalDelete

SpecBatch == InitBatch /\ [][NextBatch]_vars

\* the round trip of a snapshot
NextBackup ==
    \/ ComputeDataForShootStateBackupUpload
    \/ LoadShootState
    \/ RestoreExtensionObjectState
    \/ RestoreStatePatch
    \/ RestoreResource
    \/ RestoreStateDone

SpecBackup == InitBackup /\ [][NextBackup]_vars

\* the computation of the snapshot
NextSnapshot ==
    \/ ComputeShootStateExtensionsDataAndResources
    \/ ComputeItem
    \/ ComputeDone
    \/ SnapshotExternalUpdate

SpecSnapshot == InitSnapshot /\ [][NextSnapshot]_vars

\* concurrent invocations of SaveGardenerResourceDataInShootState
NextSave ==
    \/ SaveMutate
    \/ SavePatch
    \/ SaveSet

SpecSave == InitSave /\ [][NextSave]_vars

(* ------------------------- the readiness wait ------------------------- *)

\* C1: WaitUntilExtensionObjectReady called with an object that carries the
\* timestamp annotation T returns nil only on a poll that fetched a healthy
\* object whose timestamp annotation equals T; an object fetched with another
\* or no timestamp is never accepted.
C1_NilOnlyOnPassedTimestamp ==
    (call = "WaitReady" /\ hist.passedTs # NoTs /\ result = Nil)
        => (obs = "healthy" /\ obj.ts = hist.passedTs)

\* the wait of an annotated object returned nil after a poll it had to retry
C1_Witness ==
    call = "WaitReady" /\ hist.passedTs # NoTs /\ result = Nil /\ w.polls > 1

\* C2: Wait of the relay component, called after Deploy, returns nil only on
\* an observation of the relay object whose timestamp annotation equals the
\* timestamp Deploy wrote.
C2_WaitAcceptsOnlyDeployedTimestamp ==
    (call = "Wait" /\ result = Nil) => obj.ts = hist.deployedTs

\* C3: when every poll returns a health error with codes and the timeout is
\* longer than the severe threshold, the wait fails at the first poll whose
\* count exceeds severeThreshold/interval, that is after at most the severe
\* threshold has passed; when every poll returns a health error without
\* codes, the wait fails only when the timeout expires.
C3_CodedFailsAtThresholdUntaggedAtTimeout ==
    (call \in {"WaitReady", "Wait"} /\ w.polls > 0) =>
        /\ (w.codedPolls = w.polls /\ w.timeout > w.severe) =>
              /\ w.polls <= w.severe + 1
              /\ w.end = IF w.polls = w.severe + 1 THEN "severe" ELSE "running"
        /\ (obs = "unhealthy" /\ w.codedPolls = 0 /\ ~w.sawNotFound) =>
              /\ w.end \in {"running", "timeout"}
              /\ w.end = "timeout" => w.polls = w.timeout

\* every poll returned an error with codes, the first ones were retried and
\* the wait failed at the severe threshold, before the timeout
C3_Witness ==
    /\ call \in {"WaitReady", "Wait"}
    /\ w.severe >= 1 /\ w.timeout > w.severe
    /\ w.codedPolls = w.polls
    /\ w.end = "severe"

\* C4 as stated: a health error with codes ends the wait only after more than
\* severeThreshold/interval polls have returned an error with codes; polls
\* that returned not-found or an error without codes do not count.
C4_OnlyCodedPollsCount ==
    (call \in {"WaitReady", "Wait"} /\ obs = "unhealthy" /\ w.end = "severe")
        => w.codedPolls > w.severe

\* C4 amended: the severe threshold is measured against all polls of the
\* wait. A poll that returns a health error with codes ends the wait exactly
\* if its ordinal among all polls of the wait, whatever the earlier ones
\* returned, exceeds severeThreshold/interval.
C4_EveryPollCounts ==
    (call \in {"WaitReady", "Wait"} /\ obs = "unhealthy" /\ w.lastObservedError.coded)
        => (w.end = "severe" <=> w.polls > w.severe)

\* an error with codes ended the wait although no more than
\* severeThreshold/interval polls had returned one
C4_Witness ==
    /\ call \in {"WaitReady", "Wait"}
    /\ obs = "unhealthy" /\ w.end = "severe"
    /\ w.codedPolls <= w.severe

\* C5: a poll that does not find the object is retried and does not end the
\* wait (only the timeout does); a poll that finds the object healthy ends
\* the wait with nil (no post-ready hook given), also after polls that did
\* not find it.
C5_NotFoundIsRetried ==
    call \in {"WaitReady", "Wait"} =>
        /\ obs = "notfound" =>
              /\ w.end \in {"running", "timeout"}
              /\ w.end = "timeout" => w.polls = w.timeout
        /\ (obs = "healthy" /\ w.hook = "nil") => (result = Nil /\ w.end = "ok")

\* the wait returned nil after a poll that had not found the object
C5_Witness ==
    call \in {"WaitReady", "Wait"} /\ w.sawNotFound /\ obs = "healthy" /\ result = Nil

\* C6: when the wait fails, by timeout or by a fatal error, after a poll has
\* observed a health error, the returned error carries the description and
\* the codes of the last observed health error.
C6_LastObservedErrorReturned ==
    (call \in {"WaitReady", "Wait"} /\ w.end \in {"severe", "timeout"}
        /\ w.lastObservedError # Nil)
        => /\ result.kind = "lastObserved"
           /\ result.desc = w.lastObservedError.desc
           /\ result.codes = ExtractErrorCodes(w.lastObservedError)

\* the wait timed out and returned the codes of the last observed error
C6_Witness ==
    /\ call \in {"WaitReady", "Wait"}
    /\ w.end = "timeout" /\ w.lastObservedError # Nil
    /\ result.codes # {}

(* ----------------------- deletion and annotation ---------------------- *)

\* C7: DeleteExtensionObject issues Delete only after the deletion
\* confirmation (with a timestamp) was patched onto the object with success;
\* when the patch fails with an error other than not-found, that error is
\* returned and no Delete is issued.
C7_DeleteOnlyAfterConfirmation ==
    call \in {"Delete", "Destroy"} =>
        /\ (pc = "delete" \/ hist.deleteIssued) =>
              (hist.patchAnswer = Nil /\ obj.confirm /\ obj.ts # NoTs)
        /\ hist.patchAnswer \notin {Pending, Nil, NotFoundErr} =>
              (pc = "idle" /\ result = hist.patchAnswer /\ ~hist.deleteIssued)

\* the confirmation patch failed in the store and the call returned
C7_Witness ==
    call = "Delete" /\ hist.patchAnswer = FakeErr /\ result = FakeErr

\* C8: on an object that does not exist, Destroy (DeleteExtensionObject),
\* WaitCleanup (WaitUntilExtensionObjectDeleted), MigrateExtensionObject and
\* WaitUntilExtensionObjectMigrated return nil and write nothing to the store.
C8_AbsentObjectIsNoError ==
    /\ (call \in {"Delete", "Destroy"} /\ hist.patchAnswer = NotFoundErr) =>
          (pc = "idle" /\ result = Nil /\ ~hist.deleteIssued /\ ~hist.wrote)
    /\ (call = "Migrate" /\ hist.patchAnswer = NotFoundErr) =>
          (result = Nil /\ ~hist.wrote)
    /\ (call \in {"WaitDeleted", "WaitCleanup", "WaitMigrated"} /\ obs = "notfound") =>
          (pc = "idle" /\ result = Nil /\ ~hist.wrote)

\* the migrate annotation found no object, nil was returned, no object is
\* in the store
C8_Witness ==
    call = "Migrate" /\ hist.patchAnswer = NotFoundErr /\ result = Nil /\ ~present

\* C9 as stated: when the deletion-confirmation patch hits a conflict, the
\* call does not return the conflict as its error but retries.
C9_ConflictIsRetried ==
    (call \in {"Delete", "Destroy"} /\ hist.patchAnswer = ConflictErr)
        => result # ConflictErr

\* C9 amended: when the deletion-confirmation patch hits a conflict, the call
\* returns the conflict error at once: it issues no Delete, patches nothing
\* and does not retry.
C9_ConflictIsReturned ==
    (call \in {"Delete", "Destroy"} /\ hist.patchAnswer = ConflictErr)
        => (pc = "idle" /\ result = ConflictErr /\ ~hist.deleteIssued /\ ~hist.wrote)

\* the confirmation patch of an object read at an older revision answered
\* with a conflict
C9_Witness ==
    call = "Delete" /\ hist.stale /\ hist.patchAnswer = ConflictErr /\ pc = "idle"

\* C10 as stated: the patches of AnnotateObjectWithOperation and of the
\* deletion confirmation fail when another writer changed the object after
\* the revision the caller holds.
C10_PatchesAreOptimistic == hist.stale => hist.patchAnswer # Nil

\* C10 amended: the deletion-confirmation patch fails when another writer
\* changed the object after the revision the caller holds. The patch of
\* AnnotateObjectWithOperation carries no revision: it is applied to the
\* stored object whatever its revision, sets the operation and timestamp
\* annotations and leaves every other field as the store holds it.
C10_AnnotateMergesOntoStore ==
    /\ []((call \in {"Delete", "Destroy"} /\ hist.stale) => hist.patchAnswer # Nil)
    /\ [][(AnnotateObjectWithOperation \/ MigrateExtensionObject)
            => /\ (present /\ obs' # "store") => hist'.patchAnswer = Nil
               /\ hist'.patchAnswer = Nil =>
                     /\ store'.ts = TsString(now)
                     /\ store'.op \in {"reconcile", "migrate"}
                     /\ \A f \in DOMAIN store \ {"op", "ts", "rv"} :
                            store'[f] = store[f]]_vars

\* the annotation was patched onto a revision newer than the one the caller
\* held
C10_Witness ==
    call = "Annotate" /\ hist.stale /\ hist.patchAnswer = Nil /\ store.op = "reconcile"

(* ---------------------------- frame effects --------------------------- *)

\* C11: the readiness, deletion and migration waits write nothing to the
\* store; DeleteExtensionObject changes nothing of the stored object but its
\* annotations before it deletes it, and its Delete only removes the object
\* or marks it for deletion: spec and status stay as they were stored.
C11_WaitsAndDeleteLeaveSpecAndStatus ==
    [][/\ (\/ WaitUntilExtensionObjectReady \/ PollReady \/ TimeoutReady
           \/ WaitUntilExtensionObjectDeleted \/ PollDeleted \/ TimeoutDeleted
           \/ WaitUntilExtensionObjectMigrated \/ PollMigrated \/ TimeoutMigrated
           \/ DeleteExtensionObject)
            => UNCHANGED <<present, store, revision>>
       /\ ConfirmStep
            => /\ present' = present
               /\ \A f \in DOMAIN store \ {"confirm", "ts", "rv"} : store'[f] = store[f]
       /\ DeleteStep
            => \/ ~present'
               \/ \A f \in DOMAIN store \ {"deleting", "rv"} : store'[f] = store[f]]_vars

\* the deletion confirmation was patched onto a reconciled object and its
\* spec and status are still stored
C11_Witness ==
    /\ call = "Delete" /\ pc = "delete" /\ hist.patchAnswer = Nil
    /\ present /\ store.confirm
    /\ store.spec = "values" /\ store.state = "Succeeded"

(* ------------------------------ migration ----------------------------- *)

\* C16: WaitUntilExtensionObjectMigrated returns nil exactly when a poll did
\* not find the object or found it with last operation Migrate and
\* Succeeded; an object found in any other condition is retried, and the
\* wait returns an error once the timeout has passed.
C16_MigratedExactlyOnMigrateSucceeded ==
    call = "WaitMigrated" =>
        /\ result = Nil <=>
              \/ obs = "notfound"
              \/ obs = "healthy"
        /\ obs = "healthy" => (obj.optype = "Migrate" /\ obj.state = "Succeeded")
        /\ obs = "unhealthy" =>
              /\ ~(obj.optype = "Migrate" /\ obj.state = "Succeeded")
              /\ w.end \in {"running", "timeout"}
              /\ w.end = "running" => result = Pending
              /\ w.end = "timeout" => (w.polls = w.timeout /\ result.kind = "timeout")

\* the wait returned nil on a migrated object after a poll it had to retry
C16_Witness ==
    call = "WaitMigrated" /\ result = Nil /\ obs = "healthy" /\ w.polls > 1

(* ------------------------- the upload of a backup --------------------- *)

\* C18: UploadShootStateBackup calls, in this order, Destroy and WaitCleanup,
\* Deploy and Wait, Destroy and WaitCleanup again, and nothing more; a call
\* is made only after the one before it returned nil, so the error of a
\* failed step ends the upload.
C18_UploadStepsInOrder ==
    [][call' # call =>
          /\ <<call, call'>> \in {<<"none", "Destroy">>, <<"Destroy", "WaitCleanup">>,
                                  <<"WaitCleanup", "Deploy">>, <<"Deploy", "Wait">>,
                                  <<"Wait", "Destroy">>}
          /\ call # "none" => (pc = "idle" /\ result = Nil)
          /\ call = "WaitCleanup" => hist.deployedTs = NoTs]_vars

\* the second cleanup of an upload returned nil
C18_Witness ==
    call = "WaitCleanup" /\ hist.deployedTs # NoTs /\ result = Nil

\* C19 as stated: Deploy is reached only after the relay object was observed
\* absent, and a Deploy that succeeds has always created the relay object,
\* never patched an existing one.
C19_DeployAlwaysCreates ==
    (call = "Deploy" /\ result = Nil) => obs = "notfound"

\* C19 amended: Deploy is begun only after WaitCleanup returned nil on a poll
\* that did not find the relay object. Deploy reads the object again: it
\* creates the object if it is still absent, and if another client created
\* it in between, Deploy patches operation, timestamp and spec onto the
\* existing object and leaves its other fields.
C19_DeployAfterAbsenceCreatesOrPatches ==
    [][/\ (call' = "Deploy" /\ call # "Deploy")
            => (call = "WaitCleanup" /\ obs = "notfound" /\ result = Nil)
       /\ (DeployWrite /\ result' = Nil)
            => IF present
               THEN /\ obs = "found"
                    /\ \A f \in DOMAIN store \ {"op", "ts", "spec", "rv"} :
                          store'[f] = store[f]
               ELSE /\ obs = "notfound"
                    /\ store' = [Deployed(EmptyObj) EXCEPT !.rv = revision + 1]]_vars

\* Deploy patched a relay object that another client had created after the
\* cleanup was observed
C19_Witness ==
    call = "Deploy" /\ result = Nil /\ obs = "found" /\ store.fin

(* ------------------------------- C12 -------------------------------- *)

\* the steps of the pipeline, in the order of the code
RestoreSteps == <<"deploy", "state", "annotate">>

\* C12: RestoreExtensionWithDeployFunction runs deployFunc, then the restore of
\* the state, then the restore annotation: the steps that succeeded are always
\* a prefix of that order, the annotation is attempted only after both earlier
\* steps returned nil, a step that failed ends the call with its error, and
\* the step that fails leaves what the earlier steps wrote as it is.
C12_RestoreStepsInOrderStopOnError ==
    /\ [](call = "Restore" =>
            /\ \E n \in 0..3 : restore.steps = SubSeq(RestoreSteps, 1, n)
            /\ pc = "restoreAnnotate" => restore.steps = <<"deploy", "state">>
            /\ pc = "restoreState" => restore.steps = <<"deploy">>
            /\ restore.failed # "none" => pc = "idle" /\ result \notin {Nil, Pending}
            /\ store.op = "restore" => restore.steps = RestoreSteps
            /\ (pc = "idle" /\ result = Nil) => restore.steps = RestoreSteps)
    /\ [][(call = "Restore" /\ restore'.failed # "none")
            => (store' = store /\ present' = present
                /\ restore'.created = restore.created
                /\ restore'.steps = restore.steps)]_vars

\* the state restore failed after deployFunc had written: no annotation, and
\* the deployed object is still there with wait-for-state
C12_Witness ==
    /\ call = "Restore"
    /\ restore.failed = "state"
    /\ restore.steps = <<"deploy">>
    /\ present
    /\ store.op = "wait-for-state"
    /\ pc = "idle"

(* ------------------------------- C13 -------------------------------- *)

\* the references of the matched entry the resource table has no payload for
Dangling == restore.entry.resources \ shootState.resources

\* C13 as stated: RestoreExtensionObjectState does not return nil when a
\* reference of the restored entry has no payload in the resource table.
C13_DanglingRefFails ==
    (call = "RestoreState" /\ pc = "idle" /\ restore.patched /\ Dangling # {})
        => result # Nil

(* ------------------------------- C14 -------------------------------- *)

\* the ShootState holds an entry with the kind, the name and the purpose of
\* the object the restore was called for
HasEntry ==
    \E e \in shootState.extensions :
        e.kind = RestoreKind /\ e.name = ObjName /\ e.purpose = obj.purpose

\* C14 as stated: RestoreExtensionObjectState returns an error whenever the
\* object it is called for does not exist.
C14_AbsentTargetFails ==
    (call = "RestoreState" /\ pc = "idle" /\ ~present) => result # Nil

\* C14, amended: called for an object that does not exist,
\* RestoreExtensionObjectState returns an error exactly when the ShootState
\* holds an entry for the object (the error of the status patch); without such
\* an entry it returns nil. In both cases no object is created or changed.
C14_AbsentTargetFailsOnlyWithEntry ==
    (call = "RestoreState" /\ pc = "idle" /\ ~present) =>
        /\ result = Nil <=> ~HasEntry
        /\ HasEntry => result \in {NotFoundErr, FakeErr}
        /\ store = EmptyObj
        /\ revision = 1
        /\ restore.created = {}

\* the status patch for an object that does not exist was answered not found
C14_Witness ==
    /\ call = "RestoreState"
    /\ pc = "idle"
    /\ ~present
    /\ HasEntry
    /\ result = NotFoundErr

(* ------------------------------- C15 -------------------------------- *)

\* the entries of the ShootState with the kind and the name of the object
SameKindAndName ==
    {e \in shootState.extensions : e.kind = RestoreKind /\ e.name = ObjName}

\* C15: entries with the same kind and name and different purposes are
\* restored independently: after RestoreExtensionObjectState returned nil the
\* status of the object holds the State and the Resources of the entry with
\* the purpose of the object, whatever the entry with the other purpose holds,
\* and nothing if there is only an entry with another purpose.
C15_EntryOfOwnPurposeIsRestored ==
    (call = "RestoreState" /\ pc = "idle" /\ result = Nil /\ present) =>
        /\ \A e \in SameKindAndName :
              e.purpose = store.purpose =>
                  store.statusState = e.state /\ store.resources = e.resources
        /\ (\A e \in SameKindAndName : e.purpose # store.purpose) =>
              store.statusState = <<>> /\ store.resources = {}

\* the ShootState holds two entries for the kind and the name of the object,
\* with different purposes and different states, and the restore returned nil
C15_Witness ==
    /\ call = "RestoreState"
    /\ pc = "idle"
    /\ result = Nil
    /\ present
    /\ store.purpose = "exposure"
    /\ \E a, b \in SameKindAndName :
          /\ a.purpose = "exposure"
          /\ b.purpose = "none"
          /\ a.state # b.state
          /\ store.statusState = a.state

(* ------------------------------- C17 -------------------------------- *)

\* C17: MigrateExtensionObjects and WaitUntilExtensionObjectsMigrated make one
\* task for every object the list returned; the tasks run in any order and
\* every one runs to its end whatever the others returned; the batch returns
\* nil only if every task returned nil. When the list itself fails the batch
\* returns that error and no task is made.
C17_EveryListedObjectIsAttempted ==
    (call \in {"MigrateAll", "WaitAllMigrated"}) =>
        /\ DOMAIN batch.task = batch.listed
        /\ batch.listOK \/ (batch.listed = {} /\ pc = "idle" /\ result = FakeErr)
        /\ (pc = "idle" /\ batch.listOK) =>
              /\ \A i \in batch.listed : batch.task[i].status = "done"
              /\ Len(batch.done) = Cardinality(batch.listed)
              /\ result = Nil <=> \A i \in batch.listed : batch.task[i].result = Nil

\* a batch over two objects: the task that ended first failed, the other one
\* was run after it and returned nil, and the batch returned an error
C17_Witness ==
    /\ call \in {"MigrateAll", "WaitAllMigrated"}
    /\ pc = "idle"
    /\ Len(batch.done) >= 2
    /\ batch.task[batch.done[1]].result # Nil
    /\ batch.task[batch.done[2]].result = Nil
    /\ result # Nil

(* ------------------------------- C20 -------------------------------- *)

\* the entries of the uploaded snapshot with the kind, the name and the
\* purpose of the restored object
Matching ==
    {e \in backup.snapshot.extensions :
        e.kind = RestoreKind /\ e.name = ObjName /\ e.purpose = store.purpose}

\* the restore of a downloaded snapshot returned nil
RoundTripDone ==
    backup.stage = "loaded" /\ call = "RestoreState" /\ pc = "idle" /\ result = Nil

C21_SnapshotHasNoDuplicates ==
    /\ \A i, j \in 1..Len(backup.extensions) :
          EntryKeyOf(backup.extensions[i]) = EntryKeyOf(backup.extensions[j]) => i = j
    /\ \A i, j \in 1..Len(backup.resources) :
          backup.resources[i].ref = backup.resources[j].ref => i = j
    /\ backup.stage = "snapshot" =>
          /\ Cardinality(backup.snapshot.extensions) = Len(backup.extensions)
          /\ Cardinality(backup.snapshot.resources) = Len(backup.resources)

\* the snapshot was computed a second time, two entries refer to the same
\* reference, and its payload is the one read last
C21_Witness ==
    /\ backup.stage = "snapshot"
    /\ backup.runs = 2
    /\ \E i, j \in 1..Len(backup.extensions) :
          /\ i # j
          /\ "r1" \in backup.extensions[i].resources
          /\ "r1" \in backup.extensions[j].resources
    /\ \E i \in 1..Len(backup.resources) :
          backup.resources[i] = [ref |-> "r1", data |-> "new"]

(* ------------------------------- C22 -------------------------------- *)

\* C22 as stated: the invocations of SaveGardenerResourceDataInShootState
\* exclude each other, so that when the concurrent invocations have all
\* returned nil the ShootState of the Shoot holds what each of them added.
C22_NoLostUpdate ==
    (/\ batch.kind = "Save"
     /\ \A i \in Invocations : batch.task[i].pc = "done" /\ batch.task[i].result = Nil)
        => \A i \in Invocations :
              StrategicMergeFrom(batch.task[i].original, batch.task[i].copy)
                  \subseteq shootState.gardener

(* ------------------------------- C23 -------------------------------- *)

\* a poll of one of the three waits that got the object from the store
PollGotObject ==
    /\ pc \in {"ready", "deleted", "migrated"}
    /\ w'.polls = w.polls + 1
    /\ obs' \notin {"store", "notfound"}

\* C23: a poll of the readiness, deletion and migration waits that gets the
\* object leaves the passed object equal to the stored one, and what it
\* decides is what the checks say of the stored object: nothing of the passed
\* object or of an earlier poll is checked. A WaitUntilExtensionObjectReady
\* that returns nil leaves the passed object equal to the stored one.
C23_PollsCheckTheStoredObject ==
    [][PollGotObject =>
        /\ obj' = store
        /\ pc = "ready" =>
              /\ obs' = "healthy"
                   <=> ReadyHealthFunc(w.checkTs, w.expectedTimestamp, store) = Nil
              /\ result' = Nil => obj' = store'
        /\ pc = "migrated" => (obs' = "healthy" <=> IsMigrated(store))
        /\ pc = "deleted" =>
              IF store.lastError = NoLastError
              THEN w'.lastObservedError = w.lastObservedError
              ELSE /\ w'.lastObservedError.desc = store.lastError.desc
                   /\ w'.lastObservedError.codes = store.lastError.codes]_vars

\* an earlier poll of the wait saw a last error on the object, the store
\* holds none any more, and the wait returned nil with the stored object
C23_Witness ==
    /\ call = "WaitReady"
    /\ pc = "idle"
    /\ result = Nil
    /\ w.polls >= 2
    /\ w.lastObservedError # Nil
    /\ obj = store
    /\ obj.lastError = NoLastError

(* ------------------------------- C24 -------------------------------- *)

\* the first poll of WaitUntilExtensionObjectReady gets an object whose last
\* operation is Succeeded and whose timestamp is the expected one, if one is
\* expected
FirstPollSeesSucceeded ==
    /\ pc = "ready"
    /\ call = "WaitReady"
    /\ w.polls = 0
    /\ w'.polls = 1
    /\ obs' \notin {"store", "notfound"}
    /\ store.state = "Succeeded"
    /\ w.checkTs => store.ts = w.expectedTimestamp

FirstPollSeesPassedVersion ==
    /\ pc = "ready"
    /\ call = "WaitReady"
    /\ w.polls = 0
    /\ w'.polls = 1
    /\ present
    /\ obs' # "store"
    /\ obj.rv # 0
    /\ obj = store
    /\ store.state = "Succeeded"

\* C26: a poll of WaitUntilExtensionObjectReady that finds the last operation
\* Succeeded but not updated since the passed object does not end the wait
\* with nil.
C26_NotUpdatedOperationIsNotReady ==
    [][FirstPollSeesPassedVersion => ~(pc' = "idle" /\ result' = Nil)]_vars

(* ------------------------------- C27 -------------------------------- *)

\* C27: the post-ready hook is called only on a poll whose health check
\* passed, and that poll ends the wait; a wait that returned nil called the
\* hook once, when one was passed; a wait whose hook failed has ended with
\* an error, so no further poll is made.
C27_HookOnceAfterHealthyPoll ==
    /\ [](call = "WaitReady" => w.hookCalls <= 1)
    /\ []((call = "WaitReady" /\ pc = "idle" /\ result = Nil) =>
            w.hookCalls = IF w.hook = "nil" THEN 0 ELSE 1)
    /\ [](w.hookFailed => (pc = "idle" /\ result # Nil /\ w.hookCalls = 1))
    /\ [][w'.hookCalls > w.hookCalls =>
            (pc = "ready" /\ obs' = "healthy" /\ pc' = "idle")]_vars

\* a wait with a hook returned nil on its second poll, after a first poll
\* that found the object not ready
C27_Witness ==
    /\ call = "WaitReady"
    /\ pc = "idle"
    /\ result = Nil
    /\ w.hook # "nil"
    /\ w.polls = 2
    /\ w.lastObservedError # Nil
    /\ w.hookCalls = 1

(* ------------------------------- C28 -------------------------------- *)

\* C28: a poll of WaitUntilExtensionObjectDeleted that finds the object does
\* not end the wait, whatever LastError and codes the object carries, and
\* remembers the LastError it saw; the wait ends with an error for a present
\* object only at the timeout, and that error then carries the description and
\* the codes of the last LastError a poll observed.
C28_DeletedWaitRetriesUntilTimeout ==
    /\ [][(pc = "deleted" /\ w'.polls = w.polls + 1 /\ obs' = "found") =>
            /\ pc' = "deleted"
            /\ result' = Pending
            /\ store.lastError # NoLastError =>
                 /\ w'.lastObservedError.desc = store.lastError.desc
                 /\ w'.lastObservedError.codes = store.lastError.codes]_vars
    /\ []((call \in {"WaitDeleted", "WaitCleanup"} /\ pc = "idle"
              /\ result # Nil /\ obs = "found") =>
            /\ w.end = "timeout"
            /\ w.polls = w.timeout
            /\ w.lastObservedError # Nil =>
                 /\ result.desc = w.lastObservedError.desc
                 /\ result.codes = w.lastObservedError.codes)

\* the wait timed out after two polls that found the object with a LastError
\* that carries a code
C28_Witness ==
    /\ call = "WaitDeleted"
    /\ pc = "idle"
    /\ w.end = "timeout"
    /\ w.polls = 2
    /\ obs = "found"
    /\ result.codes = {"ERR_INFRA_UNAUTHORIZED"}
    /\ result.desc = "Some error"

(* ------------------------------- C29 -------------------------------- *)

\* C29: a wait whose post-ready hook failed returns an error that describes
\* the failure of the hook, whatever the polls before it observed.
C29_HookErrorIsReturned ==
    (call = "WaitReady" /\ w.hookFailed) =>
        (result.kind = "hook" /\ result.desc = "post ready failed")

(* ------------------------------- C30 -------------------------------- *)

\* C30: whenever the last operation of the BackupDownload is Succeeded, the
\* actuator returned data without an error in the reconcile that set it, and
\* Status.Data holds those bytes; a reconcile whose actuator failed or
\* returned no data never sets Succeeded.
C30_SucceededHoldsDownloadedData ==
    backup.lastOperation = "Succeeded" =>
        /\ backup.returned.err = "nil"
        /\ Len(backup.returned.data.bytes) > 0
        /\ backup.statusData.bytes = backup.returned.data.bytes

====
